---------------------------- MODULE Spec2Model ----------------------------
(***************************************************************************)
(* Verification model of the LLMTranslator orchestration core.             *)
(*                                                                         *)
(* The module holds these state machines over one variable list:           *)
(*   SpecMask  - app/utils/textguards.py: mask / unmask                    *)
(*   SpecStore - app/stores/term_store.py: the SQLite glossary table       *)
(*   SpecFan   - resolve_glossary_for_targets: the glossary fan-out        *)
(*   Spec      - run_pipeline_graph / run_pipeline: one pipeline run       *)
(*   SpecWriters - concurrent callers of upsert_preferred and of           *)
(*               _ensure_lang_pref on one glossary table                   *)
(*   SpecWide  - a fan-out of more fill() tasks than the semaphore admits, *)
(*               with the fairness of the event loop                       *)
(*   SpecTm    - app/stores/tm_store.py: upsert, search and clear_client   *)
(*               on the tm_segments table                                  *)
(*   SpecMerge - concurrent callers of add_variants on one glossary key    *)
(*   SpecCanon, SpecSplit, SpecNumeric, SpecDomain, SpecNumAudit,          *)
(*   SpecRoute - one call of a helper function on an input of a bounded    *)
(*               set                                                       *)
(* Each specification leaves the variables of the others unchanged.        *)
(*                                                                         *)
(* Texts are sequences of word tokens (a token is what the regular         *)
(* expression \b...\b of the code treats as one word); scores are          *)
(* hundredths (0.98 is 98).                                                *)
(***************************************************************************)
EXTENDS Integers, Sequences, FiniteSets, TLC

VARIABLES
    \* ---- textguards (SpecMask)
    m_pc,        \* "input" | "masked" | "unmasked"
    m_text,      \* the source text handed to mask()
    m_dnt,       \* the protected terms handed to mask(), a list
    m_masked,    \* mask()'s first result
    m_map,       \* mask()'s second result: the dict, as its item list
    m_out,       \* unmask()'s result
    \* ---- term_store (SpecStore, SpecFan, Spec)
    glossary,    \* the rows of table glossary, in rowid order
    \* ---- resolve_glossary_for_targets (SpecFan, Spec)
    f_pc,        \* "idle" | "start" | "gather" | "returned" | "raised"
    f_in,        \* the call's arguments
    f_task,      \* the fill() task of each (concept, language) pair
    f_blocks,    \* the returned {tgt_lang: glossary block}
    \* ---- one run of /v1/translate (Spec)
    p_pc,        \* the stage the run is at, "done" or "error"
    p_in,        \* the request
    p_rag,       \* rag_snips is non-empty
    p_work,      \* the concepts of the worklist of resolve_glossary_for_targets
    p_maps,      \* gl_maps: {tgt_lang: {concept_key: preferred}}
    p_lang,      \* process_lang(L): its position, its calls, its scores
    p_results,   \* the results of the returned payload
    p_failed,    \* the call sites where a capability call raised
    p_sent,      \* the capability calls made: the site and the text handed to it
    p_swallowed, \* those of them whose caller caught the exception
    p_err,       \* what ended the run in error
    p_upserts,   \* the languages TMStore.upsert was invoked for in this run
    tm,          \* the rows of table tm_segments, in rowid order
    \* ---- concurrent callers of the glossary store (SpecWriters)
    w_task,      \* each caller: its call, its arguments, its position
    \* ---- one call of a helper function (SpecCanon, SpecSplit, SpecNumeric, SpecDomain)
    c_pc,        \* "idle" | "called" | "returned"
    c_args,      \* the arguments of the call
    c_ret        \* what the call returned

maskVars == <<m_pc, m_text, m_dnt, m_masked, m_map, m_out>>
storeVars == <<glossary>>
fanVars == <<f_pc, f_in, f_task, f_blocks>>
runVars == <<p_pc, p_in, p_rag, p_work, p_maps, p_lang, p_results, p_failed, p_sent, p_swallowed,
             p_err,
             p_upserts, tm>>
writerVars == <<w_task>>
callVars == <<c_pc, c_args, c_ret>>

vars == <<maskVars, storeVars, fanVars, runVars, writerVars, callVars>>

None == "None"

(***************************************************************************)
(* Small helpers on sequences and sets.                                    *)
(***************************************************************************)
Range(s) == {s[i] : i \in DOMAIN s}

SeqsUpTo(S, n) == UNION {[1..k -> S] : k \in 0..n}

\* the injective sequences that enumerate the finite set S
Perms(S) == {p \in [1..Cardinality(S) -> S] : \A i, j \in DOMAIN p : p[i] = p[j] => i = j}

(***************************************************************************)
(* textguards.py                                                           *)
(***************************************************************************)
\* ---- bounds of the mask model
MaxTextLen == 3
MaxTerms == 2

\* Word tokens, with the letter case kept: str.lower() is WordLower.
Words == {"acme", "Acme", "fund", "Fund", "nav"}

WordLower(w) ==
    CASE w = "Acme" -> "acme"
      [] w = "Fund" -> "fund"
      [] OTHER -> w

\* len() of one token
WordLen(w) == IF w \in {"nav"} THEN 3 ELSE 4

\* The protected terms a client may have stored: token sequences; <<>> is a
\* blank term (one that term.strip() empties).
Terms == {<<>>, <<"Acme">>, <<"nav">>, <<"Fund">>, <<"acme", "fund">>}

RECURSIVE SumLen(_)
SumLen(t) == IF t = <<>> THEN 0 ELSE WordLen(Head(t)) + SumLen(Tail(t))

\* len(term): the tokens and the single blanks between them
TermLen(t) == IF t = <<>> THEN 0 ELSE SumLen(t) + Len(t) - 1

\* f"[[ENT_{i}]]"
Placeholder(i) == <<"[[ENT_1]]", "[[ENT_2]]", "[[ENT_3]]", "[[ENT_4]]", "[[ENT_5]]">>[i]

\* sorted(set(dnt), key=len, reverse=True): every order of the distinct terms
\* with non-increasing length; terms of equal length come in the set's
\* iteration order, which the language does not fix.
SortedTerms(dnt) ==
    {p \in Perms(Range(dnt)) : \A i, j \in DOMAIN p : i < j => TermLen(p[i]) >= TermLen(p[j])}

\* re.IGNORECASE match of term at the head of txt
MatchesAt(txt, term) ==
    /\ Len(txt) >= Len(term)
    /\ \A k \in 1..Len(term) : WordLower(txt[k]) = WordLower(term[k])

\* re.sub(rf"\b{term}\b", placeholder, masked, flags=re.IGNORECASE):
\* leftmost, non-overlapping occurrences
RECURSIVE ReSub(_, _, _)
ReSub(txt, term, ph) ==
    IF Len(txt) < Len(term) \/ txt = <<>> THEN txt
    ELSE IF MatchesAt(txt, term)
         THEN <<ph>> \o ReSub(SubSeq(txt, Len(term) + 1, Len(txt)), term, ph)
         ELSE <<Head(txt)>> \o ReSub(Tail(txt), term, ph)

\* the loop of mask() from its i-th turn on: [masked, mapping]
RECURSIVE MaskLoop(_, _, _, _)
MaskLoop(order, i, masked, mapping) ==
    IF i > Len(order) THEN [masked |-> masked, mapping |-> mapping]
    ELSE IF order[i] = <<>>
         THEN MaskLoop(order, i + 1, masked, mapping)
         ELSE MaskLoop(order, i + 1,
                       ReSub(masked, order[i], Placeholder(i)),
                       Append(mapping, <<Placeholder(i), order[i]>>))

\* mask(text, dnt) for one iteration order of the term set
mask(text, dnt, order) ==
    IF dnt = <<>> THEN [masked |-> text, mapping |-> <<>>]
    ELSE MaskLoop(order, 1, text, <<>>)

\* str.replace(ph, term) on a token sequence
RECURSIVE StrReplace(_, _, _)
StrReplace(txt, ph, term) ==
    IF txt = <<>> THEN <<>>
    ELSE (IF Head(txt) = ph THEN term ELSE <<Head(txt)>>) \o StrReplace(Tail(txt), ph, term)

\* unmask(text, mapping): the items in insertion order
RECURSIVE unmask(_, _)
unmask(text, mapping) ==
    IF mapping = <<>> THEN text
    ELSE unmask(StrReplace(text, Head(mapping)[1], Head(mapping)[2]), Tail(mapping))

MaskStart ==
    /\ m_pc = "input"
    /\ m_text \in SeqsUpTo(Words, MaxTextLen)
    /\ m_dnt \in SeqsUpTo(Terms, MaxTerms)
    /\ m_masked = <<>>
    /\ m_map = <<>>
    /\ m_out = <<>>

MaskIdle ==
    /\ m_pc = "idle"
    /\ m_text = <<>>
    /\ m_dnt = <<>>
    /\ m_masked = <<>>
    /\ m_map = <<>>
    /\ m_out = <<>>

\* masked_text, mask_map = mask(text, dnt)
DoMask ==
    /\ m_pc = "input"
    /\ \E order \in SortedTerms(m_dnt) :
         LET r == mask(m_text, m_dnt, order) IN
           /\ m_masked' = r.masked
           /\ m_map' = r.mapping
    /\ m_pc' = "masked"
    /\ UNCHANGED <<m_text, m_dnt, m_out>>
    /\ UNCHANGED <<storeVars, fanVars, runVars, writerVars, callVars>>

\* full = unmask(masked_full, mask_map)
DoUnmask ==
    /\ m_pc = "masked"
    /\ m_out' = unmask(m_masked, m_map)
    /\ m_pc' = "unmasked"
    /\ UNCHANGED <<m_text, m_dnt, m_masked, m_map>>
    /\ UNCHANGED <<storeVars, fanVars, runVars, writerVars, callVars>>

NextMask == DoMask \/ DoUnmask


(***************************************************************************)
(* term_store.py: table glossary and the TermStore operations.             *)
(*                                                                         *)
(* A row is [client_id, domain, concept_key, lang, preferred, variants];   *)
(* None is SQL NULL (Python None).  variants is the set that variants_json *)
(* lists (add_variants writes the sorted list of a set).  The table is the *)
(* sequence of its rows in rowid order: a table without INTEGER PRIMARY    *)
(* KEY gives a new row the rowid max+1, and the queries below walk an      *)
(* index on (client_id, domain, ...), so rows of one scope come out in     *)
(* rowid order.                                                            *)
(***************************************************************************)
\* ---- bound of the store model: the rows the table may hold
MaxRows == 3

Clients == {"A"}
Domains == {"D"}
Concepts == {"IRR"}
StoreLangs == {"es"}
Prefs == {"p1", "p2", "p3"}
Variants == {"TIR"}

\* LOWER(x) / str.lower()
Lower(x) ==
    CASE x = "IRR" -> "irr"
      [] x = "NAV" -> "nav"
      [] x = "TIR" -> "tir"
      [] OTHER -> x

GlossaryItem(cid, dom, ck, lang, pref) ==
    [client_id |-> cid, domain |-> dom, concept_key |-> ck, lang |-> lang, preferred |-> pref]

Row(cid, dom, ck, lang, pref, vs) ==
    [client_id |-> cid, domain |-> dom, concept_key |-> ck, lang |-> lang,
     preferred |-> pref, variants |-> vs]

\* WHERE client_id IS ? AND domain IS ? AND concept_key=? AND lang=?
KeyIs(r, cid, dom, ck, lang) ==
    /\ r.client_id = cid
    /\ r.domain = dom
    /\ r.concept_key = ck
    /\ r.lang = lang

\* PRIMARY KEY (client_id, domain, concept_key, lang) on an ordinary rowid
\* table: a unique index, in which SQLite holds a NULL distinct from every
\* value, another NULL included.  A new row conflicts with row r only when
\* the four columns are equal and none of them is NULL.
PkConflict(r, cid, dom, ck, lang) ==
    /\ cid # None
    /\ dom # None
    /\ KeyIs(r, cid, dom, ck, lang)

\* INSERT OR REPLACE: the conflicting rows are deleted, the new row is added
InsertOrReplace(g, new) ==
    LET Keep(r) == ~PkConflict(r, new.client_id, new.domain, new.concept_key, new.lang)
    IN Append(SelectSeq(g, Keep), new)

\* a scalar subquery / fetchone(): the first row of the result, if any
FirstOf(rows, column, default) ==
    IF rows = <<>> THEN default
    ELSE IF column = "variants" THEN rows[1].variants ELSE rows[1].preferred

\* TermStore.upsert_preferred(item)
upsert_preferred(g, item) ==
    LET Same(r) == KeyIs(r, item.client_id, item.domain, item.concept_key, item.lang)
        vs == FirstOf(SelectSeq(g, Same), "variants", {})
    IN InsertOrReplace(g, Row(item.client_id, item.domain, item.concept_key,
                              item.lang, item.preferred, vs))

\* TermStore.add_variants(concept_key, lang, variants, client_id, domain)
add_variants(g, ck, lang, variants, cid, dom) ==
    LET Same(r) == KeyIs(r, cid, dom, ck, lang)
        old == SelectSeq(g, Same)
        vs == FirstOf(old, "variants", {}) \cup {v \in variants : v # ""}
        pref == FirstOf(old, "preferred", "")
    IN InsertOrReplace(g, Row(cid, dom, ck, lang, pref, vs))

\* TermStore.set_global_preferred(concept_key, lang, preferred)
set_global_preferred(g, ck, lang, pref) ==
    upsert_preferred(g, GlossaryItem(None, None, ck, lang, pref))

\* the scopes in the order both lookups walk them
ScopeChain(cid, dom) == <<<<cid, dom>>, <<cid, None>>, <<None, dom>>, <<None, None>>>>

\* find_preferred_fuzzy.one(cid, dom): SELECT preferred ... LIMIT 1
FuzzyOne(g, cid, dom, lang, qkey_l) ==
    LET Hit(r) == /\ r.client_id = cid
                  /\ r.domain = dom
                  /\ r.lang = lang
                  /\ \/ Lower(r.concept_key) = qkey_l
                     \/ \E v \in r.variants : Lower(v) = qkey_l
    IN FirstOf(SelectSeq(g, Hit), "preferred", None)

\* TermStore.find_preferred_fuzzy(client_id, domain, lang, query_key);
\* a result of "" (a row without preferred form) is falsy: the next scope
\* is tried
RECURSIVE FuzzyFrom(_, _, _, _, _)
FuzzyFrom(g, chain, i, lang, qkey_l) ==
    IF i > Len(chain) THEN None
    ELSE LET pref == FuzzyOne(g, chain[i][1], chain[i][2], lang, qkey_l)
         IN IF pref # None /\ pref # "" THEN pref
            ELSE FuzzyFrom(g, chain, i + 1, lang, qkey_l)

find_preferred_fuzzy(g, cid, dom, lang, query_key) ==
    IF query_key = "" THEN None
    ELSE FuzzyFrom(g, ScopeChain(cid, dom), 1, lang, Lower(query_key))

\* glossary_block.fetch(cid, dom)
Fetch(g, cid, dom, lang) ==
    LET Hit(r) == /\ r.client_id = cid
                  /\ r.domain = dom
                  /\ r.lang = lang
                  /\ r.preferred # ""
    IN SelectSeq(g, Hit)

\* the dict m after `for ck, pref in rows: m[ck] = pref` over the rows of
\* the four scopes in chain order: the last row of a concept key decides
DictOf(rows) ==
    [ck \in {rows[i].concept_key : i \in DOMAIN rows} |->
        LET last == CHOOSE i \in DOMAIN rows :
                        /\ rows[i].concept_key = ck
                        /\ \A j \in DOMAIN rows : rows[j].concept_key = ck => j <= i
        IN rows[last].preferred]

\* TermStore.glossary_block(client_id, domain, lang): the map m (the block
\* string is the sorted listing of the same map)
glossary_block(g, cid, dom, lang) ==
    LET chain == ScopeChain(cid, dom)
    IN DictOf(Fetch(g, chain[1][1], chain[1][2], lang)
              \o Fetch(g, chain[2][1], chain[2][2], lang)
              \o Fetch(g, chain[3][1], chain[3][2], lang)
              \o Fetch(g, chain[4][1], chain[4][2], lang))

StoreIdle == glossary = <<>>

\* TermStore(): CREATE TABLE IF NOT EXISTS on a fresh database
StoreStart == glossary = <<>>

ScopeClients == Clients \cup {None}
ScopeDomains == Domains \cup {None}

\* await ts.upsert_preferred(GlossaryItem(...))
UpsertPreferred ==
    /\ \E cid \in ScopeClients, dom \in ScopeDomains, ck \in Concepts,
          lang \in StoreLangs, pref \in Prefs :
         /\ \/ cid # None
            \/ dom # None
         /\ glossary' = upsert_preferred(glossary, GlossaryItem(cid, dom, ck, lang, pref))
    /\ Len(glossary') <= MaxRows
    /\ UNCHANGED <<maskVars, fanVars, runVars, writerVars, callVars>>

\* await ts.set_global_preferred(concept_key, lang, preferred)
SetGlobalPreferred ==
    /\ \E ck \in Concepts, lang \in StoreLangs, pref \in Prefs :
         glossary' = set_global_preferred(glossary, ck, lang, pref)
    /\ Len(glossary') <= MaxRows
    /\ UNCHANGED <<maskVars, fanVars, runVars, writerVars, callVars>>

\* await ts.add_variants(concept_key, lang, variants, client_id, domain)
AddVariants ==
    /\ \E cid \in ScopeClients, dom \in ScopeDomains, ck \in Concepts,
          lang \in StoreLangs, variants \in SUBSET (Variants \cup {""}) :
         glossary' = add_variants(glossary, ck, lang, variants, cid, dom)
    /\ Len(glossary') <= MaxRows
    /\ UNCHANGED <<maskVars, fanVars, runVars, writerVars, callVars>>

NextStore == UpsertPreferred \/ SetGlobalPreferred \/ AddVariants

(***************************************************************************)
(* translate_graph.py: resolve_glossary_for_targets and _ensure_lang_pref  *)
(* (glossary_resolver.py holds a second copy of both with the same         *)
(* fan-out).                                                               *)
(*                                                                         *)
(* A fill() task walks queued -> lookup -> propose -> (retry) -> persist   *)
(* -> done, or ends failed when a language-service call raises.  The       *)
(* proposal and the judge call of one attempt are one step: between them   *)
(* the task touches nothing shared.                                        *)
(***************************************************************************)
ALL_LANGS == {"en", "es", "fr", "de"}

\* asyncio.Semaphore(6)
FillSemaphore == 6

\* getattr(settings, "term_quality_min", 0.75), in hundredths
TermQualityMin == 75

\* what the judge may answer (confidence, hundredths)
Confidences == {50, 90}

\* what the proposer may answer: non-empty strings
Proposals == {"p1", "p2"}

\* the target lists a request may name: "it" is a language outside ALL_LANGS
FanTargets == {"en", "it"}

\* term_mapper.BOOST, of which the model keeps one acronym: the scanner
\* returns sorted(cands | BOOST), so the worklist always holds it
BOOST == {"IRR"}

\* _filter_unknown(merged, known_terms)
FilterUnknown(terms, known_terms) ==
    {t \in terms : Lower(t) \notin {Lower(k) : k \in known_terms}}

\* the glossary rows the store may hold before the call: none, a global
\* entry (set_global_preferred), a client entry (upsert_preferred)
SeedTables ==
    {<<>>,
     set_global_preferred(<<>>, "IRR", "es", "p3"),
     upsert_preferred(<<>>, GlossaryItem("A", "D", "IRR", "en", "p3"))}

Pairs(concepts, langs) == concepts \X langs

FanIdle ==
    /\ f_pc = "idle"
    /\ f_in = <<>>
    /\ f_task = <<>>
    /\ f_blocks = <<>>

FanStartState ==
    /\ f_pc = "start"
    /\ f_in \in [targets : (SUBSET FanTargets) \ {{}},
                 client_id : {"A"},
                 domain : {"D"},
                 enable_rag : BOOLEAN,
                 fill_all_four_langs : {TRUE}]
    /\ f_task = <<>>
    /\ f_blocks = <<>>

\* {L: glossary_block(client_id, domain, L)[1] for L in targets}
BlocksOf(g, in) ==
    [L \in in.targets |-> glossary_block(g, in.client_id, in.domain, L)]

\* langs_to_fill
LangsToFill(in) ==
    IF in.fill_all_four_langs THEN ALL_LANGS ELSE in.targets

\* confs: the confidences _judge_term_quality returned to the task, in order;
\* pref: what _ensure_lang_pref returned to fill()
NewTask == [pc |-> "queued", proposal |-> None, attempts |-> 0, confs |-> <<>>,
            pref |-> None]

\* lines 214-241: the base blocks, the candidates, the worklist
FanStart ==
    /\ f_pc = "start"
    /\ LET base == BlocksOf(glossary, f_in)
           known == UNION {Range(base[L]) : L \in f_in.targets}
           concepts == FilterUnknown(BOOST, known)
       IN IF concepts = {}
          THEN /\ f_pc' = "returned"
               /\ f_blocks' = base
               /\ UNCHANGED f_task
          ELSE /\ f_pc' = "gather"
               /\ f_task' = [t \in Pairs(concepts, LangsToFill(f_in)) |-> NewTask]
               /\ UNCHANGED f_blocks
    /\ UNCHANGED <<f_in, glossary, maskVars, runVars, writerVars, callVars>>

Running == f_pc \in {"gather", "raised"}

InFlight == {t \in DOMAIN f_task : f_task[t].pc \in {"lookup", "propose", "retry", "persist"}}

\* a semaphore that lets every task in
NeverLocked(held) == FALSE

\* asyncio.Semaphore.locked(): no permit is left when `held` tasks are inside
Locked(held) == held >= FillSemaphore

\* async with sem: acquire() returns at once while the semaphore is not
\* locked; a task that finds it locked waits for a release
FillEnter(t) ==
    /\ Running
    /\ f_task[t].pc = "queued"
    /\ ~Locked(Cardinality(InFlight))
    /\ f_task' = [f_task EXCEPT ![t].pc = "lookup"]
    /\ UNCHANGED <<f_pc, f_in, f_blocks, glossary, maskVars, runVars, writerVars, callVars>>

\* a lookup whose answer is not looked at
AlwaysPropose(existing) == "propose"

\* if existing: return existing
AfterLookup(existing) ==
    IF existing # None /\ existing # "" THEN "done" ELSE "propose"

\* _ensure_lang_pref step 1: existing = find_preferred_fuzzy(...)
FillLookup(t) ==
    /\ Running
    /\ f_task[t].pc = "lookup"
    /\ LET existing == find_preferred_fuzzy(glossary, f_in.client_id, f_in.domain, t[2], t[1])
       IN f_task' = [f_task EXCEPT ![t].pc = AfterLookup(existing),
                                   ![t].pref = IF AfterLookup(existing) = "done"
                                               THEN existing ELSE @]
    /\ UNCHANGED <<f_pc, f_in, f_blocks, glossary, maskVars, runVars, writerVars, callVars>>

\* a call of llm_parse raised inside fill(): the exception leaves the task
\* and asyncio.gather hands the first one to its awaiter
TaskRaises(t) ==
    /\ f_task' = [f_task EXCEPT ![t].pc = "failed", ![t].attempts = @ + 1]
    /\ f_pc' = "raised"

PersistOnlyIfConfident(conf, enable_rag, attempt) ==
    IF attempt = 1 /\ conf < TermQualityMin /\ enable_rag THEN "retry"
    ELSE IF conf < TermQualityMin THEN "done" ELSE "persist"

RetryWhileWeak(conf, enable_rag, attempt) ==
    IF attempt <= 2 /\ conf < TermQualityMin /\ enable_rag THEN "retry" ELSE "persist"

\* the step after a judged proposal: retry when weak and enable_rag, else persist
AfterJudge(conf, enable_rag, attempt) ==
    IF attempt = 1 /\ conf < TermQualityMin /\ enable_rag THEN "retry" ELSE "persist"

\* _ensure_lang_pref step 2: proposal = _propose_term(...); conf = _judge_term_quality(...)
FillPropose(t) ==
    /\ Running
    /\ f_task[t].pc = "propose"
    /\ \/ TaskRaises(t)
       \/ /\ \E p \in Proposals, conf \in Confidences :
               f_task' = [f_task EXCEPT ![t].pc = AfterJudge(conf, f_in.enable_rag, 1),
                                        ![t].proposal = p,
                                        ![t].attempts = @ + 1,
                                        ![t].confs = Append(@, conf)]
          /\ UNCHANGED f_pc
    /\ UNCHANGED <<f_in, f_blocks, glossary, maskVars, runVars, writerVars, callVars>>

\* _ensure_lang_pref step 3: rag.web_backfill (RAGStore has no such method:
\* the AttributeError is caught by `except Exception: pass`), then the
\* proposal and the judge once more
FillRetry(t) ==
    /\ Running
    /\ f_task[t].pc = "retry"
    /\ \/ TaskRaises(t)
       \/ /\ \E p \in Proposals, conf \in Confidences :
               f_task' = [f_task EXCEPT ![t].pc = AfterJudge(conf, f_in.enable_rag, 2),
                                        ![t].proposal = p,
                                        ![t].attempts = @ + 1,
                                        ![t].confs = Append(@, conf)]
          /\ UNCHANGED f_pc
    /\ UNCHANGED <<f_in, f_blocks, glossary, maskVars, runVars, writerVars, callVars>>

\* _ensure_lang_pref step 4: ts.upsert_preferred(GlossaryItem(...))
FillPersist(t) ==
    /\ Running
    /\ f_task[t].pc = "persist"
    /\ glossary' = upsert_preferred(glossary,
                       GlossaryItem(f_in.client_id, f_in.domain, t[1], t[2], f_task[t].proposal))
    /\ f_task' = [f_task EXCEPT ![t].pc = "done", ![t].pref = f_task[t].proposal]
    /\ UNCHANGED <<f_pc, f_in, f_blocks, maskVars, runVars, writerVars, callVars>>

\* lines 263-271: every task returned, the blocks are rebuilt and returned
FanReturn ==
    /\ f_pc = "gather"
    /\ \A t \in DOMAIN f_task : f_task[t].pc = "done"
    /\ f_blocks' = BlocksOf(glossary, f_in)
    /\ f_pc' = "returned"
    /\ UNCHANGED <<f_in, f_task, glossary, maskVars, runVars, writerVars, callVars>>

\* the body of fill() as one step, for fan-outs wider than the semaphore:
\* _ensure_lang_pref returns or a call of it raises, and `async with sem`
\* releases the permit either way (the steps of the body and what they write
\* are FillLookup .. FillPersist)
FillBody(t) ==
    /\ Running
    /\ f_task[t].pc = "lookup"
    /\ \/ TaskRaises(t)
       \/ /\ f_task' = [f_task EXCEPT ![t].pc = "done"]
          /\ UNCHANGED f_pc
    /\ UNCHANGED <<f_in, f_blocks, glossary, maskVars, runVars, writerVars, callVars>>

\* the concepts of a worklist wider than the semaphore
WideConcepts == {"IRR", "NAV"}

\* the gather of fill(ck, surface, L) for ck in concepts for L in langs_to_fill
WideStart ==
    /\ f_pc = "gather"
    /\ f_in \in [targets : {{"en"}},
                 client_id : {"A"},
                 domain : {"D"},
                 enable_rag : {FALSE},
                 fill_all_four_langs : BOOLEAN]
    /\ \E concepts \in (SUBSET WideConcepts) \ {{}} :
         f_task = [t \in Pairs(concepts, LangsToFill(f_in)) |-> NewTask]
    /\ f_blocks = <<>>

NextWide ==
    \/ \E t \in DOMAIN f_task : FillEnter(t)
    \/ \E t \in DOMAIN f_task : FillBody(t)
    \/ FanReturn

\* the event loop runs every task that can run: a task that waits at a free
\* semaphore is woken, and a call that was issued answers or raises
WideFair ==
    \A t \in Pairs(WideConcepts, ALL_LANGS) :
        /\ WF_vars(t \in DOMAIN f_task /\ FillEnter(t))
        /\ WF_vars(t \in DOMAIN f_task /\ FillBody(t))

NextFan ==
    \/ FanStart
    \/ \E t \in DOMAIN f_task : FillEnter(t)
    \/ \E t \in DOMAIN f_task : FillLookup(t)
    \/ \E t \in DOMAIN f_task : FillPropose(t)
    \/ \E t \in DOMAIN f_task : FillRetry(t)
    \/ \E t \in DOMAIN f_task : FillPersist(t)
    \/ FanReturn

(***************************************************************************)
(* server.py /v1/translate: one run of run_pipeline_graph                  *)
(* (translate_graph.py) or of run_pipeline (translate_pipeline.py).        *)
(*                                                                         *)
(* Scores are hundredths.  A capability call (language service, embedding  *)
(* service) either answers or raises; what its caller does with the        *)
(* exception is Catches.                                                   *)
(***************************************************************************)
MaxSegs == 2
MaxNums == 1

\* settings.qa_weight_llm, in hundredths
QaWeightLlm == 60

\* hits[0][1] > 0.92, in hundredths
TmThreshold == 92

Min(a, b) == IF a < b THEN a ELSE b
Max(a, b) == IF a > b THEN a ELSE b

\* detect_lang: the languages it answers include its fallback
SrcLang == "es"

\* the text of segment i of split_segments(masked_text)
SegText(i) == <<"s1", "s2", "s3">>[i]

\* a pipeline in which every caller wraps its capability call in try/except
CatchesEverywhere(site) == TRUE

\* the try/except around a capability call: find_candidates_hybrid catches
\* extract_terms_llm, adomain_alignment_score catches its audit call; every
\* other caller lets the exception through
Catches(site) == site \in {"extract_terms_llm", "adomain_alignment_score"}

\* a call either answers or raises
Outcomes == {"ok", "raise"}

\* the caller goes on after the call
GoesOn(site, o) == o = "ok" \/ Catches(site)

\* numeric_consistency: n quantities in the source, m of them in the target
numeric_consistency(n, m) == IF n = 0 THEN 100 ELSE (100 * m) \div n

\* terminology_coverage: hits of the total entries of pref_map
terminology_coverage(total, hits) == IF total = 0 THEN 100 ELSE (100 * hits) \div total

\* domain_alignment_score: min(1.0, 0.5 + 0.1 * hits)
domain_alignment_score(hits) == Min(100, 50 + 10 * hits)

\* a blend that is not held above the rule score
PlainBlend(rule, o, confidence, w) ==
    IF o = "ok" THEN Min(100, ((100 - w) * rule + w * confidence) \div 100) ELSE rule

\* lines 231-243 with w = qa_weight_llm as a parameter:
\* min(1.0, max(rule, (1-w)*rule + w*confidence)), rule when the call raised
HybridDomainScore(rule, o, confidence, w) ==
    IF o = "ok"
    THEN Min(100, Max(rule, ((100 - w) * rule + w * confidence) \div 100))
    ELSE rule

\* adomain_alignment_score: min(1.0, max(rule, (1-w)*rule + w*confidence)),
\* and rule alone when the audit call raised
adomain_alignment_score(rule, o, confidence) ==
    HybridDomainScore(rule, o, confidence, QaWeightLlm)

\* pattern hits of the target text, confidences of the domain audit
DomHits == {0, 4}
AuditConfidences == {0, 100}

\* rows of tm_segments before the run
TmRow(cid, src_lang, tgt_lang, dom, src_text, tgt_text) ==
    [client_id |-> cid, src_lang |-> src_lang, tgt_lang |-> tgt_lang, domain |-> dom,
     src_text |-> src_text, tgt_text |-> tgt_text]

TmSeeds ==
    {<<>>,
     <<TmRow("A", SrcLang, "en", "D", "s1", "old")>>,
     <<TmRow("A", SrcLang, "en", "D", "s1", "")>>,
     <<TmRow("A", SrcLang, "en", "D", "s1a", "near")>>,
     <<TmRow("A", SrcLang, "en", "D", "s1a", "near"),
       TmRow("A", SrcLang, "en", "D", "s1b", "close")>>}

\* cosine similarity of two segments' embeddings, in hundredths
\* "s1a" is a stored source at exactly the threshold from segment "s1",
\* "s1b" one just above it
Sim(a, b) ==
    IF a = b THEN 100
    ELSE IF {a, b} = {"s1", "s1a"} THEN 92
    ELSE IF {a, b} = {"s1", "s1b"} THEN 93
    ELSE 50

\* TMStore.search(client_id, src_text, src_lang, tgt_lang, topk=1)
search(rows, cid, src_text, src_lang, tgt_lang) ==
    LET Scoped(r) == r.client_id = cid /\ r.src_lang = src_lang /\ r.tgt_lang = tgt_lang
        cand == SelectSeq(rows, Scoped)
    IN IF cand = <<>> THEN <<>>
       ELSE LET best == CHOOSE i \in DOMAIN cand :
                            \A j \in DOMAIN cand :
                                \/ Sim(cand[j].src_text, src_text) < Sim(cand[i].src_text, src_text)
                                \/ (Sim(cand[j].src_text, src_text) = Sim(cand[i].src_text, src_text)
                                    /\ i <= j)
            IN <<[tgt_text |-> cand[best].tgt_text, sim |-> Sim(cand[best].src_text, src_text)]>>

\* Python truthiness of an Optional[str]
Truthy(x) == x # None /\ x # ""

\* hint: hits and hits[0][1] > 0.92
TmHint(hits) == IF hits # <<>> /\ hits[1].sim > TmThreshold THEN hits[1].tgt_text ELSE None

\* targets or [l for l in ["en","fr","de","es"] if l != src]
TargetsR(in) ==
    IF in.targets = {} THEN {"en", "fr", "de", "es"} \ {SrcLang} ELSE in.targets

RunIdle ==
    /\ p_pc = "idle"
    /\ p_in = <<>>
    /\ p_rag = FALSE
    /\ p_work = {}
    /\ p_maps = <<>>
    /\ p_lang = <<>>
    /\ p_results = <<>>
    /\ p_failed = {}
    /\ p_sent = {}
    /\ p_swallowed = {}
    /\ p_err = None
    /\ p_upserts = {}
    /\ tm = <<>>

\* TranslateRequest
RunStart ==
    /\ p_pc = "detect"
    /\ p_in \in [engine : {"graph", "async"},
                 client_id : {"A"},
                 targets : (SUBSET FanTargets) \ {{}},
                 domain : {None},
                 enable_rag : BOOLEAN,
                 save_tm : BOOLEAN,
                 nsegs : 1..MaxSegs,
                 nums : 0..MaxNums]
    /\ p_rag = FALSE
    /\ p_work = {}
    /\ p_maps = <<>>
    /\ p_lang = <<>>
    /\ p_results = <<>>
    /\ p_failed = {}
    /\ p_sent = {}
    /\ p_swallowed = {}
    /\ p_err = None
    /\ p_upserts = {}
    /\ tm \in TmSeeds

\* the calls that take the document or a part of it, and the ones that take
\* a translation of it
SourceSites ==
    {"decide_domain", "retrieve", "extract_terms_llm", "_propose_term", "search",
     "translate_text", "adequacy_review"}

\* the text a call takes: run_pipeline_graph hands over state["masked_text"]
\* and its segments, run_pipeline hands over `text` and its segments; the
\* fluency review and the merge take the translation `base`, the domain
\* audit takes the unmasked `full`
TextGiven(engine, site) ==
    IF site \in SourceSites
    THEN IF engine = "graph" THEN "masked_text" ELSE "text"
    ELSE IF site = "adomain_alignment_score" THEN "full" ELSE "base"

\* the helper of services/ through which a call site reaches the language
\* service: router.py:27, translator.py:15 and editor.py:11 call llm_text;
\* term_extractor.py:31, translate_graph.py:135 and 144, adequacy_reviewer.py:13,
\* fluency_reviewer.py:11 and validators.py:234 call llm_parse;
\* rag_store.py:82 and tm_store.py:40 call embed_texts
HelperOf(site) ==
    CASE site \in {"decide_domain", "translate_text", "edit_merge"} -> "llm_text"
      [] site \in {"extract_terms_llm", "_propose_term", "adequacy_review",
                   "fluency_review", "adomain_alignment_score"} -> "llm_parse"
      [] site \in {"retrieve", "search"} -> "embed_texts"

\* helpers that issue the request of llm_parse without a limiter
ParseUnlimited(helper) ==
    CASE helper = "llm_text" -> "_llm_limiter"
      [] helper = "llm_parse" -> None
      [] helper = "embed_texts" -> "_embed_limiter"

\* the module-level limiter a helper holds while it issues the request:
\* llm.py:53 and llm.py:112 `async with _llm_limiter`, embeddings.py:12
\* `async with get_embed_limiter()`, which returns llm.py's _embed_limiter
LimiterOf(helper) ==
    CASE helper = "llm_text" -> "_llm_limiter"
      [] helper = "llm_parse" -> "_llm_limiter"
      [] helper = "embed_texts" -> "_embed_limiter"

\* the bookkeeping of a call at `site` that ended with outcome o
Called(site, o) ==
    /\ p_failed' = IF o = "raise" THEN p_failed \cup {site} ELSE p_failed
    /\ p_sent' = p_sent \cup {[site |-> site, text |-> TextGiven(p_in.engine, site),
                               limiter |-> LimiterOf(HelperOf(site))]}
    /\ p_swallowed' = IF o = "raise" /\ Catches(site) THEN p_swallowed \cup {site}
                      ELSE p_swallowed

\* the exception leaves the pipeline: server.translate answers HTTP 500
Abort(site) ==
    /\ p_pc' = "error"
    /\ p_err' = site

\* an edge set that leaves decide_domain out
EdgesPastDomain(node) ==
    CASE node = "START" -> "detect_and_prepare"
      [] node = "detect_and_prepare" -> "resolve_glossary"
      [] node = "decide_domain" -> "resolve_glossary"
      [] node = "resolve_glossary" -> "translate_and_review"
      [] node = "translate_and_review" -> "END"

\* build_graph: the edges added to the StateGraph
GraphEdge(node) ==
    CASE node = "START" -> "detect_and_prepare"
      [] node = "detect_and_prepare" -> "decide_domain"
      [] node = "decide_domain" -> "resolve_glossary"
      [] node = "resolve_glossary" -> "translate_and_review"
      [] node = "translate_and_review" -> "END"

\* the position of the run when a node of the graph is entered
EntryPc(node) ==
    CASE node = "detect_and_prepare" -> "detect"
      [] node = "decide_domain" -> "domain"
      [] node = "resolve_glossary" -> "rag"
      [] node = "translate_and_review" -> "translate"
      [] node = "END" -> "done"

\* n_detect_and_prepare: language, targets, DNT list, mask
Detect ==
    /\ p_pc = "detect"
    /\ p_in.engine = "graph"
    /\ p_pc' = EntryPc(GraphEdge("detect_and_prepare"))
    /\ UNCHANGED <<p_in, p_rag, p_work, p_maps, p_lang, p_results, p_failed, p_sent,
                   p_swallowed,
                   p_err, p_upserts, tm, maskVars, storeVars, fanVars, writerVars, callVars>>

\* n_decide_domain: normalize_domain(state.get("domain") or await decide_domain(...))
DecideDomain ==
    /\ p_pc = "domain"
    /\ IF p_in.domain # None
       THEN /\ p_pc' = EntryPc(GraphEdge("decide_domain"))
            /\ UNCHANGED <<p_failed, p_sent, p_swallowed, p_err>>
       ELSE \E o \in Outcomes :
               /\ Called("decide_domain", o)
               /\ IF GoesOn("decide_domain", o)
                  THEN p_pc' = EntryPc(GraphEdge("decide_domain")) /\ UNCHANGED p_err
                  ELSE Abort("decide_domain")
    /\ UNCHANGED <<p_in, p_rag, p_work, p_maps, p_lang, p_results, p_upserts, tm,
                   maskVars, storeVars, fanVars, writerVars, callVars>>

\* n_resolve_glossary, lines 322-328: load_seed_sources and retrieve when
\* enable_rag; retrieve embeds the query
Retrieve ==
    /\ p_pc = "rag"
    /\ IF p_in.enable_rag
       THEN \E o \in Outcomes, found \in BOOLEAN :
               /\ Called("retrieve", o)
               /\ IF GoesOn("retrieve", o)
                  THEN /\ p_pc' = "glossary"
                       /\ p_rag' = (o = "ok" /\ found)
                       /\ UNCHANGED p_err
                  ELSE /\ Abort("retrieve")
                       /\ UNCHANGED p_rag
       ELSE /\ p_pc' = "glossary"
            /\ UNCHANGED <<p_rag, p_failed, p_sent, p_swallowed, p_err>>
    /\ UNCHANGED <<p_in, p_work, p_maps, p_lang, p_results, p_upserts, tm,
                   maskVars, storeVars, fanVars, writerVars, callVars>>

\* the arguments n_resolve_glossary passes to resolve_glossary_for_targets
FanArgs(in) ==
    [targets |-> TargetsR(in), client_id |-> in.client_id, domain |-> "D",
     enable_rag |-> in.enable_rag, fill_all_four_langs |-> TRUE]

\* resolve_glossary_for_targets, lines 214-241: base blocks, known strings,
\* find_candidates_hybrid (which catches extract_terms_llm), canonical keys
Candidates ==
    /\ p_pc = "glossary"
    /\ \E o \in Outcomes :
        /\ Called("extract_terms_llm", o)
        /\ IF GoesOn("extract_terms_llm", o)
           THEN LET base == BlocksOf(glossary, FanArgs(p_in))
                    known == UNION {Range(base[L]) : L \in TargetsR(p_in)}
                    llm_terms == IF o = "ok" THEN BOOST ELSE {}
                IN /\ p_work' = FilterUnknown(BOOST \cup llm_terms, known)
                   /\ p_pc' = "fill"
                   /\ UNCHANGED p_err
           ELSE /\ Abort("extract_terms_llm")
                /\ UNCHANGED p_work
    /\ UNCHANGED <<p_in, p_rag, p_maps, p_lang, p_results, p_upserts, tm,
                   maskVars, storeVars, fanVars, writerVars, callVars>>

\* _ensure_lang_pref for one pair, from lookup to upsert, with proposal p
EnsureLangPref(g, in, t, p) ==
    IF find_preferred_fuzzy(g, in.client_id, in.domain, t[2], t[1]) \notin {None, ""}
    THEN g
    ELSE upsert_preferred(g, GlossaryItem(in.client_id, in.domain, t[1], t[2], p))

\* the pairs of a set, in one order
PairOrder(S) == CHOOSE q \in Perms(S) : TRUE

RECURSIVE FillFrom(_, _, _, _, _)
FillFrom(g, in, order, i, p) ==
    IF i > Len(order) THEN g
    ELSE FillFrom(EnsureLangPref(g, in, order[i], p), in, order, i + 1, p)

\* process_lang(L) before its first segment
NewLang ==
    [pc |-> "tm", seg |-> 1, ade |-> FALSE, flu |-> FALSE, hinted |-> {}, above |-> {},
     translated_segs |-> <<>>, verbatim |-> {},
     calls |-> [site \in {"search", "translate_text", "adequacy_review", "fluency_review",
                          "edit_merge", "adomain_alignment_score"} |-> 0],
     scored |-> 0, qa |-> None,
     qa_on |-> [src |-> None, tgt |-> None]]

\* resolve_glossary_for_targets, lines 243-271, and n_resolve_glossary, lines
\* 341-346: the fill() tasks of the worklist as one step (SpecFan has their
\* interleaving), then the blocks and the maps of the targets.  A task that
\* raises ends the gather; `done` are the pairs resolved by then.
FillPairs ==
    /\ p_pc = "fill"
    /\ LET in == FanArgs(p_in)
           pairs == Pairs(p_work, LangsToFill(in))
           Missing(t) == find_preferred_fuzzy(glossary, in.client_id, in.domain, t[2], t[1])
                             \in {None, ""}
       IN \E o \in Outcomes, p \in Proposals, done \in SUBSET pairs :
            /\ o = "ok" => done = pairs
            /\ o = "raise" => \E t \in pairs \ done : Missing(t)
            /\ glossary' = FillFrom(glossary, in, PairOrder(done), 1, p)
            /\ Called("_propose_term", o)
            /\ IF GoesOn("_propose_term", o)
               THEN /\ p_maps' = [L \in in.targets |->
                                     glossary_block(glossary', in.client_id, in.domain, L)]
                    /\ p_lang' = [L \in in.targets |-> NewLang]
                    /\ p_pc' = EntryPc(GraphEdge("resolve_glossary"))
                    /\ UNCHANGED p_err
               ELSE /\ Abort("_propose_term")
                    /\ UNCHANGED <<p_maps, p_lang>>
    /\ UNCHANGED <<p_in, p_rag, p_work, p_results, p_upserts, tm, maskVars, fanVars, writerVars, callVars>>

\* one awaited call of process_lang(L) at `site`: it answers and the task
\* goes on as `next`, or it raises, the task ends and the gather of line 391
\* raises with it
LangCall(L, site, o, next) ==
    /\ Called(site, o)
    /\ IF GoesOn(site, o)
       THEN /\ p_lang' = [p_lang EXCEPT ![L] = [next EXCEPT !.calls[site] = @ + 1]]
            /\ UNCHANGED <<p_pc, p_err>>
       ELSE /\ p_lang' = [p_lang EXCEPT ![L].pc = "failed", ![L].calls[site] = @ + 1]
            /\ Abort(site)
    /\ UNCHANGED <<p_in, p_rag, p_work, p_maps, p_results, p_upserts, tm,
                   maskVars, storeVars, fanVars, writerVars, callVars>>

\* hits = await TMStore().search(...); hint = hits[0][0] if above the threshold;
\* base = hint or await translate_text(...): an empty hint is no hint
TmSearch(L) ==
    /\ p_pc = "translate"
    /\ p_lang[L].pc = "tm"
    /\ \E o \in Outcomes :
        LET me == p_lang[L]
            hits == IF o = "ok" THEN search(tm, p_in.client_id, SegText(me.seg), SrcLang, L)
                    ELSE <<>>
            hint == TmHint(hits)
        IN LangCall(L, "search", o,
                    [me EXCEPT !.pc = IF Truthy(hint) THEN "review" ELSE "gen",
                               !.hinted = IF Truthy(hint) THEN @ \cup {me.seg} ELSE @,
                               !.above = IF hits # <<>> /\ hits[1].sim > TmThreshold
                                         THEN @ \cup {me.seg} ELSE @])

\* base = hint or await translate_text(...)
Translate(L) ==
    /\ p_pc = "translate"
    /\ p_lang[L].pc = "gen"
    /\ \E o \in Outcomes :
        LangCall(L, "translate_text", o, [p_lang[L] EXCEPT !.pc = "review"])

\* asyncio.gather(adequacy_review(...), fluency_review(...)): the first
AdequacyReview(L) ==
    /\ p_pc = "translate"
    /\ p_lang[L].pc = "review"
    /\ ~p_lang[L].ade
    /\ \E o \in Outcomes :
        LangCall(L, "adequacy_review", o, [p_lang[L] EXCEPT !.ade = TRUE])

\* asyncio.gather(adequacy_review(...), fluency_review(...)): the second
FluencyReview(L) ==
    /\ p_pc = "translate"
    /\ p_lang[L].pc = "review"
    /\ ~p_lang[L].flu
    /\ \E o \in Outcomes :
        LangCall(L, "fluency_review", o, [p_lang[L] EXCEPT !.flu = TRUE])

\* merged = await edit_merge(adequacy_text=(ade.revised or base),
\* fluency_text=(flu.revised or base)): the editor's answer is the text the
\* reviews were given (base: the TM hint or the generated text) or another
\* text; translated_segs.append(merged) keeps the answer.  verbatim are the
\* segments of a TM hint whose appended text is the hint.
EditorTexts == {"base", "edited"}

\* a gather that hands over as soon as one of the two reviews has answered
EitherAnswered(ade, flu) == ade \/ flu

\* await asyncio.gather(adequacy_review(...), fluency_review(...)) returns
\* when both have answered
GatherReturns(ade, flu) == ade /\ flu

\* a list that takes the new segment at its head
Prepend(segs, merged) == <<merged>> \o segs

\* translated_segs.append(merged); the merged text of segment i is written i
AppendMerged(segs, merged) == Append(segs, merged)

\* merged = await edit_merge(...); translated_segs.append(merged); next segment
EditMerge(L) ==
    /\ p_pc = "translate"
    /\ p_lang[L].pc = "review"
    /\ GatherReturns(p_lang[L].ade, p_lang[L].flu)
    /\ \E o \in Outcomes, merged \in EditorTexts :
        LET me == p_lang[L]
            segs == AppendMerged(me.translated_segs, me.seg)
            kept == IF merged = "base" /\ me.seg \in me.hinted
                    THEN me.verbatim \cup {me.seg} ELSE me.verbatim
        IN LangCall(L, "edit_merge", o,
                    IF me.seg < p_in.nsegs
                    THEN [me EXCEPT !.pc = "tm", !.seg = @ + 1, !.ade = FALSE, !.flu = FALSE,
                                    !.translated_segs = segs, !.verbatim = kept]
                    ELSE [me EXCEPT !.pc = "qa", !.translated_segs = segs,
                                    !.verbatim = kept])

\* scores taken on the joined segments as they are, placeholders included
ScoresJoined(engine) == [src |-> "text", tgt |-> "masked_full"]

\* the texts handed to the scores.  translate_graph lines 381-387:
\* masked_full = join(translated_segs); full = unmask(masked_full, mask_map);
\* numeric_consistency(state["text"], full), terminology_coverage(full, ...),
\* adomain_alignment_score(domain, full).  translate_pipeline lines 137-144:
\* full = join(translated_segs) of segments cut from the text as given.
QaTexts(engine) ==
    IF engine = "graph" THEN [src |-> "text", tgt |-> "full"]
    ELSE [src |-> "text", tgt |-> "joined"]

\* lines 381-389: join, unmask, numeric_consistency, terminology_coverage,
\* adomain_alignment_score; the target text decides the hits
Score(L) ==
    /\ p_pc = "translate"
    /\ p_lang[L].pc = "qa"
    /\ LET me == p_lang[L]
           total == Cardinality(DOMAIN p_maps[L])
       IN \E m \in 0..p_in.nums, h \in 0..total, dh \in DomHits,
             o \in Outcomes, conf \in AuditConfidences :
            LangCall(L, "adomain_alignment_score", o,
                     [me EXCEPT !.pc = "ok",
                                !.scored = @ + 1,
                                !.qa_on = QaTexts(p_in.engine),
                                !.qa = [numeric_consistency |-> numeric_consistency(p_in.nums, m),
                                        term_coverage |-> terminology_coverage(total, h),
                                        domain_score |->
                                            adomain_alignment_score(domain_alignment_score(dh),
                                                                    o, conf)]])

\* the rows process_lang upserts, one per language and segment (line 134)
TmRowsFor(in, langs) ==
    LET order == PairOrder(langs \X (1..in.nsegs))
    IN [i \in DOMAIN order |->
           TmRow(in.client_id, SrcLang, order[i][1], "D", SegText(order[i][2]), "new")]

\* a node that upserts every merged segment, whatever save_tm says
UpsertsMerged(rows, in, langs) == rows \o TmRowsFor(in, langs)

\* tm_segments after n_translate_and_review (lines 353-394): the node calls
\* TMStore.search alone, state["save_tm"] is read nowhere, the rows stay
TmAfterReview(rows, in, langs) == rows

\* lines 391-394 and run_pipeline_graph's payload
Collect ==
    /\ p_pc = "translate"
    /\ \A L \in DOMAIN p_lang : p_lang[L].pc = "ok"
    /\ p_results' = [L \in DOMAIN p_lang |-> [qa |-> p_lang[L].qa]]
    /\ p_pc' = EntryPc(GraphEdge("translate_and_review"))
    /\ tm' = TmAfterReview(tm, p_in, DOMAIN p_lang)
    /\ UNCHANGED <<p_in, p_rag, p_work, p_maps, p_lang, p_failed, p_sent, p_swallowed, p_err,
                   p_upserts, maskVars, storeVars, fanVars, writerVars, callVars>>

\* the parameters of TermStore.glossary_block after self
GlossaryBlockArity == 3

\* a call that binds whatever it passes (glossary_block without the domain
\* parameter, as line 88 of translate_pipeline.py expects it)
BindsAnyArity(given, required) == TRUE

\* a call binds when it passes as many arguments as the method has
\* parameters without a default; otherwise Python raises TypeError
CallBinds(given, required) == given = required

\* run_pipeline, lines 77-80: language, targets, domain
AsyncRoute ==
    /\ p_pc = "detect"
    /\ p_in.engine = "async"
    /\ IF p_in.domain # None
       THEN /\ p_pc' = "context"
            /\ UNCHANGED <<p_failed, p_sent, p_swallowed, p_err>>
       ELSE \E o \in Outcomes :
               /\ Called("decide_domain", o)
               /\ IF GoesOn("decide_domain", o)
                  THEN p_pc' = "context" /\ UNCHANGED p_err
                  ELSE Abort("decide_domain")
    /\ UNCHANGED <<p_in, p_rag, p_work, p_maps, p_lang, p_results, p_upserts, tm,
                   maskVars, storeVars, fanVars, writerVars, callVars>>

\* run_pipeline, lines 83-164.  Line 88 calls ts.glossary_block(client_id, L)
\* with two arguments; were the call to bind, the rest of the run would
\* follow: each segment translated, reviewed, merged and, when save_tm,
\* upserted into the TM (lines 133-134) before the QA of lines 137-144.
AsyncContext ==
    /\ p_pc = "context"
    /\ IF ~CallBinds(2, GlossaryBlockArity)
       THEN /\ Abort("TypeError")
            /\ UNCHANGED <<p_maps, p_results, p_upserts, tm>>
       ELSE LET langs == TargetsR(p_in)
                maps == BlocksOf(glossary, FanArgs(p_in))
            IN /\ p_maps' = maps
               /\ tm' = IF p_in.save_tm THEN tm \o TmRowsFor(p_in, langs) ELSE tm
               /\ p_upserts' = IF p_in.save_tm THEN langs ELSE {}
               /\ \E m \in [langs -> 0..p_in.nums], dh \in [langs -> DomHits] :
                    p_results' = [L \in langs |->
                        [qa |-> [numeric_consistency |-> numeric_consistency(p_in.nums, m[L]),
                                 term_coverage |->
                                     terminology_coverage(Cardinality(DOMAIN maps[L]), 0),
                                 domain_score |-> domain_alignment_score(dh[L])]]]
               /\ p_pc' = "done"
               /\ UNCHANGED p_err
    /\ UNCHANGED <<p_in, p_rag, p_work, p_lang, p_failed, p_sent, p_swallowed,
                   maskVars, storeVars, fanVars, writerVars, callVars>>

NextRun ==
    \/ Detect
    \/ DecideDomain
    \/ Retrieve
    \/ Candidates
    \/ FillPairs
    \/ \E L \in DOMAIN p_lang : TmSearch(L)
    \/ \E L \in DOMAIN p_lang : Translate(L)
    \/ \E L \in DOMAIN p_lang : AdequacyReview(L)
    \/ \E L \in DOMAIN p_lang : FluencyReview(L)
    \/ \E L \in DOMAIN p_lang : EditMerge(L)
    \/ \E L \in DOMAIN p_lang : Score(L)
    \/ Collect
    \/ AsyncRoute
    \/ AsyncContext

(***************************************************************************)
(* Concurrent callers of the glossary store.  Every TermStore method runs  *)
(* in asyncio.to_thread on a connection of its own; upsert_preferred is    *)
(* one INSERT OR REPLACE statement, which SQLite executes under its write  *)
(* lock, and _ensure_lang_pref awaits the lookup and, later, the upsert.   *)
(***************************************************************************)
MaxWriters == 2

WriterLangs == {"es", "en"}

WriterPrefs == {"p1", "p2"}

\* the calls: upsert_preferred with any scope (set_global_preferred passes
\* the null scope), _ensure_lang_pref with the client and domain of a run
WriterCalls ==
    [kind : {"upsert_preferred"}, client_id : ScopeClients, domain : ScopeDomains,
     lang : WriterLangs, preferred : WriterPrefs]
    \cup
    [kind : {"_ensure_lang_pref"}, client_id : Clients, domain : Domains,
     lang : WriterLangs, preferred : WriterPrefs]

WritersIdle == w_task = <<>>

\* stamp: the position of the caller's write among the writes, 0 before it
WritersStart ==
    \E calls \in [1..MaxWriters -> WriterCalls] :
        w_task = [w \in 1..MaxWriters |->
                    [call |-> calls[w],
                     pc |-> IF calls[w].kind = "upsert_preferred" THEN "write" ELSE "lookup",
                     stamp |-> 0]]

Writes == Cardinality({w \in DOMAIN w_task : w_task[w].stamp > 0})

\* _ensure_lang_pref step 1: existing = find_preferred_fuzzy(...); return if found
WriterLookup(w) ==
    /\ w_task[w].pc = "lookup"
    /\ LET c == w_task[w].call
           existing == find_preferred_fuzzy(glossary, c.client_id, c.domain, c.lang, "IRR")
       IN w_task' = [w_task EXCEPT ![w].pc = IF Truthy(existing) THEN "done" ELSE "write"]
    /\ UNCHANGED <<glossary, maskVars, fanVars, runVars, callVars>>

\* upsert_preferred(GlossaryItem(...)), directly or as step 4 of _ensure_lang_pref
WriterUpsert(w) ==
    /\ w_task[w].pc = "write"
    /\ LET c == w_task[w].call
       IN glossary' = upsert_preferred(glossary,
                          GlossaryItem(c.client_id, c.domain, "IRR", c.lang, c.preferred))
    /\ w_task' = [w_task EXCEPT ![w].pc = "done", ![w].stamp = Writes + 1]
    /\ UNCHANGED <<maskVars, fanVars, runVars, callVars>>

NextWriters ==
    \/ \E w \in DOMAIN w_task : WriterLookup(w)
    \/ \E w \in DOMAIN w_task : WriterUpsert(w)

(***************************************************************************)
(* One call of a helper function: the call takes its arguments from a      *)
(* bounded set and returns.                                                *)
(***************************************************************************)
CallIdle ==
    /\ c_pc = "idle"
    /\ c_args = <<>>
    /\ c_ret = <<>>

\* every state machine but the helper calls is at rest
OthersIdle == MaskIdle /\ StoreIdle /\ FanIdle /\ RunIdle /\ WritersIdle

(***************************************************************************)
(* to_canonical (agents/concept_canonicalizer.py and its copy in           *)
(* pipelines/translate_graph.py).  A string is the sequence of its         *)
(* characters; "i_acute" and "I_ACUTE" are the letter i with an acute      *)
(* accent, lower and upper case.                                           *)
(***************************************************************************)
MaxSurface == 3

\* str.lower() on the letters in use
CasePairs ==
    {<<"T", "t">>, <<"I", "i">>, <<"R", "r">>, <<"P", "p">>, <<"O", "o">>, <<"D", "d">>,
     <<"E", "e">>, <<"C", "c">>, <<"A", "a">>, <<"M", "m">>, <<"B", "b">>, <<"F", "f">>,
     <<"X", "x">>, <<"I_ACUTE", "i_acute">>}

UpperChars == {p[1] : p \in CasePairs}
LowerChars == {p[2] : p \in CasePairs}
AsciiLetters == (UpperChars \cup LowerChars) \ {"I_ACUTE", "i_acute"}
\* what str.strip() and \s take for whitespace; "nl" is the newline character
Whitespace == {" ", "nl"}
Digits == {"0", "1", "2", "5"}
\* what \w matches: letters, accented ones too, and digits ("_" is not in use)
WordChars == UpperChars \cup LowerChars \cup Digits

CharLower(c) == IF c \in UpperChars THEN (CHOOSE p \in CasePairs : p[1] = c)[2] ELSE c

\* s.lower()
StrLower(s) == [i \in DOMAIN s |-> CharLower(s[i])]

\* s without its first n characters / without a tail of whitespace
RECURSIVE LStrip(_)
LStrip(s) == IF s # <<>> /\ Head(s) \in Whitespace THEN LStrip(Tail(s)) ELSE s

RECURSIVE RStrip(_)
RStrip(s) ==
    IF s # <<>> /\ s[Len(s)] \in Whitespace THEN RStrip(SubSeq(s, 1, Len(s) - 1)) ELSE s

\* s.strip()
Strip(s) == RStrip(LStrip(s))

\* .replace("í", "i") and the four other vowels of line 9
FoldAccent(c) == IF c = "i_acute" THEN "i" ELSE c

\* re.sub(r"[^\w]+", "", s)
DropNonWord(s) == SelectSeq(s, LAMBDA c : c \in WordChars)

\* _norm
Norm(s) == DropNonWord([i \in DOMAIN Strip(StrLower(s)) |-> FoldAccent(Strip(StrLower(s))[i])])

IRR == <<"I", "R", "R">>
FX == <<"F", "X">>
TipoDeCambio == <<"t", "i", "p", "o", " ", "d", "e", " ", "c", "a", "m", "b", "i", "o">>

\* _ALIASES of translate_graph.py, its IRR and FX entries of the letters in use
ALIASES_GRAPH ==
    {<<<<"i", "r", "r">>, IRR>>, <<<<"t", "i", "r">>, IRR>>, <<<<"t", "r", "i">>, IRR>>,
     <<<<"f", "x">>, FX>>,
     <<<<"t", "i", "p", "o", "d", "e", "c", "a", "m", "b", "i", "o">>, FX>>}

\* _ALIASES of concept_canonicalizer.py: the key of line 24 is "tipo decambio"
ALIASES_AGENT ==
    {<<<<"i", "r", "r">>, IRR>>, <<<<"t", "i", "r">>, IRR>>, <<<<"t", "r", "i">>, IRR>>,
     <<<<"f", "x">>, FX>>,
     <<<<"t", "i", "p", "o", " ", "d", "e", "c", "a", "m", "b", "i", "o">>, FX>>}

CanonModules == {"concept_canonicalizer", "translate_graph"}

AliasesOf(module) == IF module = "translate_graph" THEN ALIASES_GRAPH ELSE ALIASES_AGENT

\* re.fullmatch(r"[A-Za-z]{2,6}", term.strip()) and term.isupper()
LooksLikeAcronym(term) ==
    /\ Len(Strip(term)) \in 2..6
    /\ \A i \in DOMAIN Strip(term) : Strip(term)[i] \in AsciiLetters
    /\ \A i \in DOMAIN term : term[i] \notin LowerChars
    /\ \E i \in DOMAIN term : term[i] \in UpperChars

\* to_canonical: (concept_key, is_known)
to_canonical(aliases, term) ==
    LET k == Norm(term)
    IN IF k = <<>> THEN <<term, FALSE>>
       ELSE IF \E e \in aliases : e[1] = k
            THEN <<(CHOOSE e \in aliases : e[1] = k)[2], TRUE>>
            ELSE IF LooksLikeAcronym(term) THEN <<Strip(term), TRUE>>
                 ELSE <<Strip(term), FALSE>>

\* the characters of the short surfaces, and the surfaces handed to to_canonical
SurfaceChars == {"t", "i", "r", "T", "I", "R", "i_acute", " ", "."}

Surfaces ==
    SeqsUpTo(SurfaceChars, MaxSurface)
    \cup {TipoDeCambio,
          <<"T", "i", "p", "o", " ", "D", "e", " ", "C", "a", "m", "b", "i", "o">>,
          <<"t", "i", "p", "o", "d", "e", "c", "a", "m", "b", "i", "o">>,
          <<"T", ".", "I", ".", "R", ".">>, <<" ", "T", "i_acute", "r", " ">>,
          <<"f", "x">>, <<"F", "X">>}

CanonStart ==
    /\ c_pc = "called"
    /\ c_args \in [fn : {"to_canonical"}, module : CanonModules, term : Surfaces]
    /\ c_ret = <<>>

CallToCanonical ==
    /\ c_pc = "called"
    /\ c_ret' = to_canonical(AliasesOf(c_args.module), c_args.term)
    /\ c_pc' = "returned"
    /\ UNCHANGED <<c_args, maskVars, storeVars, fanVars, runVars, writerVars>>

NextCanon == CallToCanonical

(***************************************************************************)
(* split_segments (pipelines/translate_graph.py; translate_pipeline.py has *)
(* the same lines).  Texts are character sequences over a letter, the full *)
(* stop, the space and the newline; no text holds a carriage return.       *)
(***************************************************************************)
MaxDocLen == 6
MaxChars == 3

DocChars == {"a", ".", " ", "nl"}

\* [\.\!\?]
Terminators == {".", "!", "?"}

SetMax(S) == CHOOSE x \in S : \A y \in S : y <= x

\* the end of the whitespace run that starts at i
WsRunEnd(s, i) == SetMax({j \in i..Len(s) : \A k \in i..j : s[k] \in Whitespace})

\* \n\s*\n matched at i: the end of the match, 0 when there is none
BlankLineEnd(s, i) ==
    IF s[i] # "nl" THEN 0
    ELSE LET ends == {j \in (i + 1)..WsRunEnd(s, i) : s[j] = "nl"}
         IN IF ends = {} THEN 0 ELSE SetMax(ends)

\* re.split(r"\n\s*\n|\r\n\r\n", s)
RECURSIVE SplitParas(_, _, _)
SplitParas(s, i, start) ==
    IF i > Len(s) THEN <<SubSeq(s, start, Len(s))>>
    ELSE LET e == BlankLineEnd(s, i)
         IN IF e > 0 THEN <<SubSeq(s, start, i - 1)>> \o SplitParas(s, e + 1, e + 1)
            ELSE SplitParas(s, i + 1, start)

\* (?<=[\.\!\?])\s+ matched at i: the end of the match, 0 when there is none
SentenceGapEnd(s, i) ==
    IF i > 1 /\ s[i] \in Whitespace /\ s[i - 1] \in Terminators THEN WsRunEnd(s, i) ELSE 0

\* re.split(r"(?<=[\.\!\?])\s+", p)
RECURSIVE SplitSents(_, _, _)
SplitSents(s, i, start) ==
    IF i > Len(s) THEN <<SubSeq(s, start, Len(s))>>
    ELSE LET e == SentenceGapEnd(s, i)
         IN IF e > 0 THEN <<SubSeq(s, start, i - 1)>> \o SplitSents(s, e + 1, e + 1)
            ELSE SplitSents(s, i + 1, start)

\* a test that forgets the joining space
FitsUnjoined(buf, s, max_chars) == Len(buf) + Len(s) <= max_chars

\* if len(buf) + len(s) + 1 <= max_chars
Fits(buf, s, max_chars) == Len(buf) + Len(s) + 1 <= max_chars

\* the loop over sents, lines 41-49
RECURSIVE Pack(_, _, _, _, _)
Pack(sents, k, buf, segs, max_chars) ==
    IF k > Len(sents)
    THEN IF buf # <<>> THEN Append(segs, buf) ELSE segs
    ELSE IF Fits(buf, sents[k], max_chars)
         THEN Pack(sents, k + 1, Strip(buf \o <<" ">> \o sents[k]), segs, max_chars)
         ELSE Pack(sents, k + 1, sents[k],
                   IF buf # <<>> THEN Append(segs, buf) ELSE segs, max_chars)

\* the loop over parts, lines 32-49
RECURSIVE SegsOf(_, _, _)
SegsOf(parts, k, max_chars) ==
    IF k > Len(parts) THEN <<>>
    ELSE LET p == Strip(parts[k])
         IN (IF p = <<>> THEN <<>>
             ELSE IF Len(p) <= max_chars THEN <<p>>
             ELSE Pack(SplitSents(p, 1, 1), 1, <<>>, <<>>, max_chars))
            \o SegsOf(parts, k + 1, max_chars)

split_segments(text, max_chars) == SegsOf(SplitParas(Strip(text), 1, 1), 1, max_chars)

SplitStart ==
    /\ c_pc = "called"
    /\ c_args \in [fn : {"split_segments"}, text : SeqsUpTo(DocChars, MaxDocLen),
                   max_chars : 0..MaxChars]
    /\ c_ret = <<>>

CallSplitSegments ==
    /\ c_pc = "called"
    /\ c_ret' = split_segments(c_args.text, c_args.max_chars)
    /\ c_pc' = "returned"
    /\ UNCHANGED <<c_args, maskVars, storeVars, fanVars, runVars, writerVars>>

NextSplit == CallSplitSegments

(***************************************************************************)
(* numeric_consistency (qa/validators.py) on texts.  The texts hold        *)
(* digits, the comma, the full stop, the percent sign, the space and a     *)
(* letter: no currency symbol, sign, parenthesis or magnitude suffix.      *)
(***************************************************************************)
MaxNumLen == 3

NumChars == {"1", "0", ",", ".", "%", " ", "a"}

\* \d+ on s[a..b]
AllDigits(s, a, b) == a <= b /\ b <= Len(s) /\ \A k \in a..b : s[k] \in Digits

\* \d{1,3}(?:[.\s]\d{3})* on s[a..b]
GroupedInt(s, a, b) ==
    \E n \in 1..3 :
        /\ AllDigits(s, a, a + n - 1)
        /\ b >= a + n - 1 /\ b <= Len(s)
        /\ (b - (a + n - 1)) % 4 = 0
        /\ \A g \in 0..(((b - (a + n - 1)) \div 4) - 1) :
              /\ s[a + n + 4 * g] \in {"."} \cup Whitespace
              /\ AllDigits(s, a + n + 4 * g + 1, a + n + 4 * g + 3)

\* the quantity of every alternative of NUM_RE, lines 19, 24, 29 and 35:
\* (?:\d{1,3}(?:[.\s]\d{3})*(?:[.,]\d+)?|\d+(?:[.,]\d+)?) on s[a..b]
Quantity(s, a, b) ==
    \/ GroupedInt(s, a, b)
    \/ AllDigits(s, a, b)
    \/ \E k \in a..(b - 2) :
          /\ GroupedInt(s, a, k) \/ AllDigits(s, a, k)
          /\ s[k + 1] \in {".", ","}
          /\ AllDigits(s, k + 2, b)

\* the ends of a match of NUM_RE that starts with the digit at a: a quantity
\* with \s?% (alternative 1) or alone (alternative 4), not followed by \w
TokenEnds(s, a) ==
    {e \in a..Len(s) :
        /\ \/ Quantity(s, a, e)
           \/ /\ s[e] = "%"
              /\ \/ Quantity(s, a, e - 1)
                 \/ e - 2 >= a /\ s[e - 1] \in Whitespace /\ Quantity(s, a, e - 2)
        /\ e = Len(s) \/ s[e + 1] \notin WordChars}

\* NUM_RE.finditer from position i, each match stripped
RECURSIVE ExtractFrom(_, _)
ExtractFrom(s, i) ==
    IF i > Len(s) THEN <<>>
    ELSE LET k == IF s[i] \in Whitespace THEN WsRunEnd(s, i) + 1 ELSE i
             ends == IF (i = 1 \/ s[i - 1] \notin WordChars) /\ k <= Len(s) /\ s[k] \in Digits
                     THEN TokenEnds(s, k) ELSE {}
         IN IF ends # {}
            THEN <<SubSeq(s, k, SetMax(ends))>> \o ExtractFrom(s, SetMax(ends) + 1)
            ELSE ExtractFrom(s, i + 1)

extract_numbers(text) == ExtractFrom(text, 1)

\* normalize_number_token: the digits of the token, "%" appended when it has one
normalize_number_token(tok) ==
    LET core == SelectSeq(tok, LAMBDA c : c \in Digits)
    IN IF core = <<>> THEN <<>>
       ELSE IF \E i \in DOMAIN tok : tok[i] = "%" THEN Append(core, "%") ELSE core

\* set(filter(None, (normalize_number_token(x) for x in extract_numbers(text))))
Normalized(text) ==
    {normalize_number_token(x) : x \in Range(extract_numbers(text))} \ {<<>>}

\* numeric_consistency(src, tgt), lines 88-96
NumericConsistency(src, tgt) ==
    numeric_consistency(Cardinality(Normalized(src)),
                        Cardinality(Normalized(src) \cap Normalized(tgt)))

\* quantities as an English and as a Spanish text write them
NumExamples ==
    {<<"1", ",", "2", "5", "0", ",", "0", "0", "0">>,
     <<"1", ".", "2", "5", "0", ".", "0", "0", "0">>,
     <<"1", "2", ",", "5", "%">>, <<"1", "2", ".", "5", "%">>}

NumTexts == SeqsUpTo(NumChars, MaxNumLen) \cup NumExamples

NumericStart ==
    /\ c_pc = "called"
    /\ c_args \in [fn : {"numeric_consistency"}, src : NumTexts, tgt : NumTexts]
    /\ c_ret = <<>>

CallNumericConsistency ==
    /\ c_pc = "called"
    /\ c_ret' = NumericConsistency(c_args.src, c_args.tgt)
    /\ c_pc' = "returned"
    /\ UNCHANGED <<c_args, maskVars, storeVars, fanVars, runVars, writerVars>>

NextNumeric == CallNumericConsistency

(***************************************************************************)
(* adomain_alignment_score (qa/validators.py): the rule score of a text    *)
(* with `hits` matching patterns, blended with the confidence of the       *)
(* domain audit under weight w.                                            *)
(***************************************************************************)
\* the patterns of the longest list of domain_alignment_score
PatternCount == 10

\* qa_weight_llm, as hundredths
AuditWeights == {0, 25, 60, 100}

DomainStart ==
    /\ c_pc = "called"
    /\ c_args \in [fn : {"adomain_alignment_score"}, hits : 0..PatternCount,
                   confidence : 0..100, w : AuditWeights, outcome : Outcomes]
    /\ c_ret = <<>>

CallDomainScore ==
    /\ c_pc = "called"
    /\ LET rule == domain_alignment_score(c_args.hits)
       IN c_ret' = [rule |-> rule,
                    score |-> HybridDomainScore(rule, c_args.outcome, c_args.confidence,
                                                c_args.w)]
    /\ c_pc' = "returned"
    /\ UNCHANGED <<c_args, maskVars, storeVars, fanVars, runVars, writerVars>>

NextDomain == CallDomainScore


(***************************************************************************)
(* The specifications.                                                     *)
(***************************************************************************)
InitMask == MaskStart /\ StoreIdle /\ FanIdle /\ RunIdle /\ WritersIdle /\ CallIdle

SpecMask == InitMask /\ [][NextMask]_vars

InitStore == StoreStart /\ MaskIdle /\ FanIdle /\ RunIdle /\ WritersIdle /\ CallIdle

SpecStore == InitStore /\ [][NextStore]_vars

InitFan == FanStartState /\ glossary \in SeedTables /\ MaskIdle /\ RunIdle /\ WritersIdle /\ CallIdle

SpecFan == InitFan /\ [][NextFan]_vars

InitWide == WideStart /\ glossary = <<>> /\ MaskIdle /\ RunIdle /\ WritersIdle /\ CallIdle

SpecWide == InitWide /\ [][NextWide]_vars /\ WideFair

RunSeeds == {<<>>, upsert_preferred(<<>>, GlossaryItem("A", "D", "IRR", "en", "p3"))}

Init == RunStart /\ glossary \in RunSeeds /\ MaskIdle /\ FanIdle /\ WritersIdle /\ CallIdle

Next == NextRun

Spec == Init /\ [][Next]_vars

InitWriters == WritersStart /\ glossary = <<>> /\ MaskIdle /\ FanIdle /\ RunIdle /\ CallIdle

SpecWriters == InitWriters /\ [][NextWriters]_vars

InitCanon == CanonStart /\ OthersIdle

SpecCanon == InitCanon /\ [][NextCanon]_vars

InitSplit == SplitStart /\ OthersIdle

SpecSplit == InitSplit /\ [][NextSplit]_vars

InitNumeric == NumericStart /\ OthersIdle

SpecNumeric == InitNumeric /\ [][NextNumeric]_vars

InitDomain == DomainStart /\ OthersIdle

SpecDomain == InitDomain /\ [][NextDomain]_vars

(***************************************************************************)
(* stores/tm_store.py: table tm_segments and the TMStore operations, each  *)
(* call one step.  c_args holds the last call and c_ret what it returned.  *)
(* An embedding is <<"vec", text>>: embed_texts answers with the vector of *)
(* the text, and Sim gives the cosine similarity of two of them.           *)
(***************************************************************************)
MaxTmRows == 2

\* (client_id, src_lang, tgt_lang) of the calls
TmScopes ==
    {<<"A", "es", "en">>, <<"B", "es", "en">>, <<"A", "es", "fr">>, <<"A", "en", "fr">>}
TmSources == {"s1", "s1b"}
TmTargets == {"old", "new"}
TopKs == {1, 2}

\* vec = await embed_texts([src_text])
Embed(text) == <<"vec", text>>

\* cosine_sim of two embeddings, in hundredths
VecSim(u, v) == Sim(u[2], v[2])

\* an upsert that keeps one record per client, language pair and source text
ReplaceBySource(rows, row) ==
    IF \E i \in DOMAIN rows :
          <<rows[i].client_id, rows[i].src_lang, rows[i].tgt_lang, rows[i].src_text>>
              = <<row.client_id, row.src_lang, row.tgt_lang, row.src_text>>
    THEN [i \in DOMAIN rows |->
            IF <<rows[i].client_id, rows[i].src_lang, rows[i].tgt_lang, rows[i].src_text>>
                  = <<row.client_id, row.src_lang, row.tgt_lang, row.src_text>>
            THEN [row EXCEPT !.id = rows[i].id] ELSE rows[i]]
    ELSE Append(rows, row)

\* INSERT INTO tm_segments(...) VALUES(...): no key but the AUTOINCREMENT id
InsertSegment(rows, row) == Append(rows, row)

\* id INTEGER PRIMARY KEY AUTOINCREMENT: one more than the largest id given
NextId(issued) == issued + 1

\* TMStore.upsert(client_id, src_lang, tgt_lang, domain, src_text, tgt_text)
tm_upsert(rows, issued, cid, src_lang, tgt_lang, dom, src_text, tgt_text) ==
    InsertSegment(rows, [id |-> NextId(issued), client_id |-> cid, src_lang |-> src_lang,
                         tgt_lang |-> tgt_lang, domain |-> dom, src_text |-> src_text,
                         tgt_text |-> tgt_text, src_vec |-> Embed(src_text)])

\* a SELECT that only asks for the client
ClientOnly(r, cid, src_lang, tgt_lang) == r.client_id = cid

\* WHERE client_id=? AND src_lang=? AND tgt_lang=?
Scoped(r, cid, src_lang, tgt_lang) ==
    r.client_id = cid /\ r.src_lang = src_lang /\ r.tgt_lang = tgt_lang

\* np.argsort(-sims): the orders of the candidates by non-increasing
\* similarity; numpy does not fix the order of equal similarities
ArgSorts(sims) ==
    {p \in Perms(DOMAIN sims) : \A i, j \in DOMAIN p : i < j => sims[p[i]] >= sims[p[j]]}

\* TMStore.search(client_id, src_text, src_lang, tgt_lang, topk): the lists
\* it may return
tm_search(rows, cid, src_text, src_lang, tgt_lang, topk) ==
    LET InScope(r) == Scoped(r, cid, src_lang, tgt_lang) /\ r.src_vec # <<>>
        cand == SelectSeq(rows, InScope)
        sims == [i \in DOMAIN cand |-> VecSim(Embed(src_text), cand[i].src_vec)]
    IN IF cand = <<>> THEN {<<>>}
       ELSE {[i \in 1..Min(topk, Len(cand)) |->
                 [tgt_text |-> cand[order[i]].tgt_text, sim |-> sims[order[i]]]] :
             order \in ArgSorts(sims)}

\* DELETE FROM tm_segments WHERE client_id=?
clear_client(rows, cid) ==
    LET Other(r) == r.client_id # cid IN SelectSeq(rows, Other)

\* the ids AUTOINCREMENT has given so far: c_ret of an upsert is the id of
\* its row, and sqlite_sequence keeps the largest id after a DELETE
IssuedIds == IF c_pc = "idle" THEN 0 ELSE c_ret.issued

\* the upserts of a behaviour are bounded: at most MaxTmRows ids are given
TmStoreUpsert ==
    /\ IssuedIds < MaxTmRows
    /\ \E sc \in TmScopes, src_text \in TmSources, tgt_text \in TmTargets :
         /\ tm' = tm_upsert(tm, IssuedIds, sc[1], sc[2], sc[3], "D", src_text, tgt_text)
         /\ c_args' = [fn |-> "upsert", client_id |-> sc[1], src_lang |-> sc[2],
                       tgt_lang |-> sc[3], src_text |-> src_text, tgt_text |-> tgt_text]
    /\ c_ret' = [issued |-> NextId(IssuedIds), hits |-> <<>>]
    /\ c_pc' = "returned"
    /\ UNCHANGED <<p_pc, p_in, p_rag, p_work, p_maps, p_lang, p_results, p_failed, p_sent,
                   p_swallowed, p_err, p_upserts>>
    /\ UNCHANGED <<maskVars, storeVars, fanVars, writerVars>>

TmStoreSearch ==
    /\ \E sc \in TmScopes, src_text \in {"s1", "s2"}, topk \in TopKs :
         /\ \E hits \in tm_search(tm, sc[1], src_text, sc[2], sc[3], topk) :
              c_ret' = [issued |-> IssuedIds, hits |-> hits]
         /\ c_args' = [fn |-> "search", client_id |-> sc[1], src_lang |-> sc[2],
                       tgt_lang |-> sc[3], src_text |-> src_text, topk |-> topk]
    /\ c_pc' = "returned"
    /\ UNCHANGED <<maskVars, storeVars, fanVars, runVars, writerVars>>

TmStoreClear ==
    /\ \E cid \in {sc[1] : sc \in TmScopes} :
         /\ tm' = clear_client(tm, cid)
         /\ c_args' = [fn |-> "clear_client", client_id |-> cid]
    /\ c_ret' = [issued |-> IssuedIds, hits |-> <<>>]
    /\ c_pc' = "returned"
    /\ UNCHANGED <<p_pc, p_in, p_rag, p_work, p_maps, p_lang, p_results, p_failed, p_sent,
                   p_swallowed, p_err, p_upserts>>
    /\ UNCHANGED <<maskVars, storeVars, fanVars, writerVars>>

NextTm == TmStoreUpsert \/ TmStoreSearch \/ TmStoreClear

InitTm == OthersIdle /\ CallIdle

SpecTm == InitTm /\ [][NextTm]_vars

(***************************************************************************)
(* qa/validators.py: anumeric_consistency, one call.  Scores, the audit's  *)
(* matched_ratio and confidence and the weight are hundredths; NumericAudit *)
(* admits only matched_ratio and confidence of 0..1 (a reply outside makes *)
(* llm_parse raise).                                                       *)
(***************************************************************************)
\* the quantities of the source text, and those of them found in the target
AuditCounts == 0..3
AuditRatios == {0, 50, 100}

\* an audit that is asked whatever the rule score
AuditsAlways(rule) == 1

\* lines 208-210: `if rule >= 1.0: return 1.0` comes before the llm_parse
\* call of lines 213-218; the calls issued for a rule score
AuditCalls(rule) == IF rule >= 100 THEN 0 ELSE 1

\* lines 208-224: 1.0 when the rule score is 1.0; else
\* min(1.0, (1-w)*rule + w*(0.5*matched_ratio + 0.5*confidence)), and the
\* rule score when the call raised
HybridNumericScore(rule, o, matched_ratio, confidence, w) ==
    IF rule >= 100 THEN 100
    ELSE IF o = "ok"
         THEN Min(100, ((100 - w) * rule + w * ((matched_ratio + confidence) \div 2)) \div 100)
         ELSE rule

NumAuditStart ==
    /\ c_pc = "called"
    /\ c_args \in [fn : {"anumeric_consistency"}, n : AuditCounts, m : AuditCounts,
                   matched_ratio : AuditRatios, confidence : AuditRatios,
                   w : AuditWeights, outcome : Outcomes]
    /\ c_args.m <= c_args.n
    /\ c_ret = <<>>

CallNumericAudit ==
    /\ c_pc = "called"
    /\ LET rule == numeric_consistency(c_args.n, c_args.m)
       IN c_ret' = [rule |-> rule,
                    calls |-> AuditCalls(rule),
                    score |-> HybridNumericScore(rule, c_args.outcome, c_args.matched_ratio,
                                                 c_args.confidence, c_args.w)]
    /\ c_pc' = "returned"
    /\ UNCHANGED <<c_args, maskVars, storeVars, fanVars, runVars, writerVars>>

NextNumAudit == CallNumericAudit

InitNumAudit == NumAuditStart /\ OthersIdle

SpecNumAudit == InitNumAudit /\ [][NextNumAudit]_vars

(***************************************************************************)
(* domain/taxonomy.py normalize_domain, agents/router.py decide_domain and *)
(* the domain step of the two engines, one call.  A label is what the code *)
(* can tell of a string: falsy (None or ""), canon (the entry of DOMAINS   *)
(* that equals label.strip().lower(), if any), literal (the string is that *)
(* entry as written), has (the keywords of lines 15-19 found in            *)
(* label.strip().lower()).                                                 *)
(***************************************************************************)
DOMAINS == {"Private Equity", "Real Estate", "Fiscal/Tax", "Wealth Management"}

Keywords == {"equity", "estate", "rics", "cap rate", "tax", "vat", "withholding", "fiscal"}

\* the keywords that are substrings of d.lower()
KeywordsIn(d) ==
    CASE d = "Private Equity" -> {"equity"}
      [] d = "Real Estate" -> {"estate"}
      [] d = "Fiscal/Tax" -> {"tax", "fiscal"}
      [] d = "Wealth Management" -> {}

\* the string d of DOMAINS
LabelOf(d) == [falsy |-> FALSE, canon |-> d, literal |-> TRUE, has |-> KeywordsIn(d)]

\* the strings a caller or the classifier may give
Labels ==
    {l \in [falsy : BOOLEAN, canon : DOMAINS \cup {None}, literal : BOOLEAN,
            has : SUBSET Keywords] :
        /\ l.falsy => (l.canon = None /\ l.has = {})
        /\ l.literal => l.canon # None
        /\ l.canon # None => l.has = KeywordsIn(l.canon)}

\* the answers of the classifier the model draws
ClassifierLabels == {l \in Labels : Cardinality(l.has) <= 1 \/ l.canon # None}

\* normalize_domain(label), lines 10-21
normalize_domain(l) ==
    IF l.canon # None THEN l.canon
    ELSE IF "equity" \in l.has THEN "Private Equity"
    ELSE IF l.has \cap {"estate", "rics", "cap rate"} # {} THEN "Real Estate"
    ELSE IF l.has \cap {"tax", "vat", "withholding", "fiscal"} # {} THEN "Fiscal/Tax"
    ELSE "Wealth Management"

\* the label of the string normalize_domain returned
Normal(l) ==
    LET d == normalize_domain(l)
    IN IF d \in DOMAINS THEN LabelOf(d)
       ELSE [falsy |-> FALSE, canon |-> None, literal |-> FALSE, has |-> {}]

\* router.decide_domain(text, hint=None) on the classifier's answer `out`:
\* clean = normalize_domain(out.strip()); return clean or "Wealth Management"
decide_domain(out) == Normal(out)

\* the domain of the run: translate_graph.py:314
\* normalize_domain(state.get("domain") or await decide_domain(...)),
\* translate_pipeline.py:80 domain_override or await decide_domain(...)
ResolveDomain(engine, override, out) ==
    LET given == IF override.falsy THEN decide_domain(out) ELSE override
    IN IF engine = "graph" THEN Normal(given) ELSE given

RouteStart ==
    /\ c_pc = "called"
    /\ c_args \in [fn : {"decide_domain"}, engine : {"graph", "async"},
                   override : Labels, out : ClassifierLabels, outcome : Outcomes]
    /\ c_ret = <<>>

\* the classifier is asked only without an override; when llm_text raises
\* the step raises
CallDecideDomain ==
    /\ c_pc = "called"
    /\ IF c_args.override.falsy /\ c_args.outcome = "raise"
       THEN c_pc' = "raised" /\ UNCHANGED c_ret
       ELSE /\ c_ret' = ResolveDomain(c_args.engine, c_args.override, c_args.out)
            /\ c_pc' = "returned"
    /\ UNCHANGED <<c_args, maskVars, storeVars, fanVars, runVars, writerVars>>

NextRoute == CallDecideDomain

InitRoute == RouteStart /\ OthersIdle

SpecRoute == InitRoute /\ [][NextRoute]_vars

(***************************************************************************)
(* Concurrent callers of TermStore.add_variants on one table.  Each call   *)
(* runs in a thread of asyncio.to_thread on a connection of its own; the   *)
(* sqlite3 module opens the implicit transaction at the INSERT, not at the *)
(* SELECT, so the two statements of a call are two steps and statements of *)
(* other calls may run between them.                                       *)
(***************************************************************************)
MergeVariants == {"v1", "v2"}

\* the table before the calls: empty, or the key with a variant
MergeSeeds ==
    {<<>>,
     add_variants(upsert_preferred(<<>>, GlossaryItem("A", "D", "IRR", "es", "p3")),
                  "IRR", "es", {"TIR"}, "A", "D")}

MergeCalls ==
    [kind : {"add_variants"}, client_id : Clients, domain : Domains, lang : WriterLangs,
     variants : (SUBSET MergeVariants) \ {{}}]

\* vs: the set the caller built from the row it read
MergeStart ==
    \E calls \in [1..MaxWriters -> MergeCalls] :
        w_task = [w \in 1..MaxWriters |-> [call |-> calls[w], pc |-> "read", vs |-> {}]]

\* lines 79-89: row = SELECT variants_json ... fetchone(); vs = set of the
\* row's variants; vs.update([v for v in variants if v])
VariantsRead(w) ==
    /\ w_task[w].pc = "read"
    /\ LET c == w_task[w].call
           Same(r) == KeyIs(r, c.client_id, c.domain, "IRR", c.lang)
           vs == FirstOf(SelectSeq(glossary, Same), "variants", {})
                    \cup {v \in c.variants : v # ""}
       IN w_task' = [w_task EXCEPT ![w].pc = "write", ![w].vs = vs]
    /\ UNCHANGED <<glossary, maskVars, fanVars, runVars, callVars>>

\* lines 90-97: INSERT OR REPLACE ... VALUES(?,?,?,?,COALESCE((SELECT
\* preferred ...),''), json.dumps(sorted(vs)))
VariantsWrite(w) ==
    /\ w_task[w].pc = "write"
    /\ LET c == w_task[w].call
           Same(r) == KeyIs(r, c.client_id, c.domain, "IRR", c.lang)
           pref == FirstOf(SelectSeq(glossary, Same), "preferred", "")
       IN glossary' = InsertOrReplace(glossary,
                          Row(c.client_id, c.domain, "IRR", c.lang, pref, w_task[w].vs))
    /\ w_task' = [w_task EXCEPT ![w].pc = "done"]
    /\ UNCHANGED <<maskVars, fanVars, runVars, callVars>>

NextMerge ==
    \/ \E w \in DOMAIN w_task : VariantsRead(w)
    \/ \E w \in DOMAIN w_task : VariantsWrite(w)

InitMerge == MergeStart /\ glossary \in MergeSeeds /\ MaskIdle /\ FanIdle /\ RunIdle /\ CallIdle

SpecMerge == InitMerge /\ [][NextMerge]_vars

(***************************************************************************)
(* The claims.                                                             *)
(***************************************************************************)

\* the terms of a list are pairwise distinct as strings
DistinctTerms(dnt) == \A i, j \in DOMAIN dnt : dnt[i] = dnt[j] => i = j

\* no token (in any letter case) belongs to two terms, so no occurrence of one
\* term can overlap an occurrence of another
NonOverlapping(dnt) ==
    \A i, j \in DOMAIN dnt : i # j =>
        {WordLower(w) : w \in Range(dnt[i])} \cap {WordLower(w) : w \in Range(dnt[j])} = {}

\* C1: for every text S and every list T of distinct, non-overlapping protected
\* terms, unmask(mask(S, T)) gives S back.
C1_RoundTrip ==
    (m_pc = "unmasked" /\ DistinctTerms(m_dnt) /\ NonOverlapping(m_dnt)) => m_out = m_text

\* the row indexes of scope (cid, dom) that hold concept ck in language lang
RowsAt(cid, dom, ck, lang) ==
    {i \in DOMAIN glossary : KeyIs(glossary[i], cid, dom, ck, lang)}

\* C2: when the store holds entries of one concept and language at scopes
\* (A, D), (A, null) and (null, D) with different preferred forms,
\* glossary_block(A, D, lang) maps the concept to the (A, D) form.
C2_HighestScopeWins ==
    \A ck \in Concepts, lang \in StoreLangs :
        \A i \in RowsAt("A", "D", ck, lang), j \in RowsAt("A", None, ck, lang),
           k \in RowsAt(None, "D", ck, lang) :
            (/\ glossary[i].preferred # ""
             /\ glossary[j].preferred # ""
             /\ glossary[k].preferred # ""
             /\ glossary[i].preferred # glossary[j].preferred
             /\ glossary[i].preferred # glossary[k].preferred
             /\ glossary[j].preferred # glossary[k].preferred)
            => glossary_block(glossary, "A", "D", lang)[ck] = glossary[i].preferred

\* C3: after any sequence of upsert_preferred and add_variants calls the
\* table holds at most one row per (client_id, domain, concept_key, lang),
\* null client_id and null domain included.
C3_OneRowPerKey ==
    \A i, j \in DOMAIN glossary :
        KeyIs(glossary[i], glossary[j].client_id, glossary[j].domain,
              glossary[j].concept_key, glossary[j].lang) => i = j

FailedTasks == {t \in DOMAIN f_task : f_task[t].pc = "failed"}

\* C7: a failure while resolving one (concept, language) pair does not abort
\* the fan-out: resolve_glossary_for_targets does not raise, and once every
\* other pair is resolved it returns normally.
C7_PairFailureIsolated ==
    FailedTasks # {} =>
        /\ f_pc # "raised"
        /\ (\A t \in DOMAIN f_task \ FailedTasks : f_task[t].pc = "done") => f_pc = "returned"

\* C8: after resolve_glossary_for_targets returns normally, every concept of
\* the worklist has a non-empty preferred form, found by find_preferred_fuzzy,
\* in every requested target language and in each of en, es, fr, de.
C8_EveryLanguageFilled ==
    f_pc = "returned" =>
        \A t \in DOMAIN f_task : \A L \in f_in.targets \cup ALL_LANGS :
            find_preferred_fuzzy(glossary, f_in.client_id, f_in.domain, L, t[1])
                \notin {None, ""}

\* settings.qa_num_min, qa_term_min, qa_dom_min (hundredths), qa_max_loops
QaNumMin == 98
QaTermMin == 98
QaDomMin == 85
QaMaxLoops == 1

\* a document passes the gate when its three scores reach the thresholds
Passes(qa) ==
    /\ qa.numeric_consistency >= QaNumMin
    /\ qa.term_coverage >= QaTermMin
    /\ qa.domain_score >= QaDomMin

Finished == p_pc \in {"done", "error"}

\* C4: in a run, TMStore.upsert is invoked for a target language only if the
\* final document of that language passed all three thresholds; a language
\* whose document fails one has nothing written to the TM.
C4_TmWriteOnlyAfterPass ==
    Finished =>
        \A L \in p_upserts :
            /\ p_pc = "done"
            /\ L \in DOMAIN p_results
            /\ Passes(p_results[L].qa)

\* a finished run asked to save, with a language below a threshold and no
\* TM write for it
C4_FailingLanguageUnwritten ==
    /\ p_pc = "done"
    /\ p_in.save_tm
    /\ \E L \in DOMAIN p_results : ~Passes(p_results[L].qa) /\ L \notin p_upserts

\* C5: a language whose document fails a threshold is repaired and scored
\* again while repair budget remains: at most qa_max_loops repairs, and a
\* returned document that still fails has used them all.
C5_RepairWhileBudget ==
    p_pc = "done" =>
        \A L \in DOMAIN p_results :
            /\ p_lang[L].scored <= 1 + QaMaxLoops
            /\ ~Passes(p_results[L].qa) => p_lang[L].scored = 1 + QaMaxLoops

\* C6: a run in which no capability call fails does not end in error and
\* returns a results entry for every target language, whatever the scores.
C6_EveryTargetAnswered ==
    p_failed = {} =>
        /\ p_pc # "error"
        /\ p_pc = "done" => DOMAIN p_results = TargetsR(p_in)

\* C9: with enable_rag, a failure of retrieval is not propagated: the run
\* goes on with no snippets and reports rag_used = false.
C9_RetrievalFailureContained ==
    "retrieve" \in p_failed =>
        /\ p_err # "retrieve"
        /\ p_pc # "error"
        /\ ~p_rag

\* C10 as stated: every failed capability call is surfaced as an error to
\* its caller and ends the run; no caller catches it and goes on with a
\* default.
C10_EveryFailureSurfaced ==
    /\ p_swallowed = {}
    /\ p_failed # {} => p_pc = "error"

\* C10: a failed capability call is raised to its immediate caller and never
\* issued again; the callers find_candidates_hybrid (term extraction) and
\* adomain_alignment_score (domain audit) catch it and go on with a default,
\* every other failure ends the run in error.
C10_FailureSurfacedExceptFallbacks ==
    /\ p_swallowed \subseteq {"extract_terms_llm", "adomain_alignment_score"}
    /\ p_failed \ p_swallowed # {} => (p_pc = "error" /\ p_err \in p_failed \ p_swallowed)
    /\ \A L \in DOMAIN p_lang :
         \A site \in DOMAIN p_lang[L].calls :
            p_lang[L].calls[site] <= p_lang[L].seg

\* a run that finished although both fallbacks were taken
C10_BothFallbacksTaken ==
    /\ p_pc = "done"
    /\ p_swallowed = {"extract_terms_llm", "adomain_alignment_score"}

\* the segments of process_lang(L) that are past the translator's turn
PastGeneration(me) ==
    {s \in 1..p_in.nsegs : s < me.seg \/ (s = me.seg /\ me.pc \in {"review", "qa", "ok"})}

\* C11: for each segment and language, translate_text is called exactly once
\* when the top TM hit is absent or at most 0.92 similar, and not at all when
\* the top hit is more than 0.92 similar.
C11_GenerateUnlessTmHit ==
    \A L \in DOMAIN p_lang :
        LET me == p_lang[L]
        IN me.pc # "failed" =>
              me.calls["translate_text"] = Cardinality(PastGeneration(me) \ me.above)

\* what a caller may look up: a concept key or a variant, in either case
Queries == {"IRR", "irr", "TIR", "tir"}

\* the scope holds an entry for lang with a preferred form, found under q
\* by its concept key or by one of its variants
ScopeEntries(g, scope, lang, q) ==
    {i \in DOMAIN g :
        /\ g[i].client_id = scope[1]
        /\ g[i].domain = scope[2]
        /\ g[i].lang = lang
        /\ g[i].preferred # ""
        /\ \/ Lower(g[i].concept_key) = Lower(q)
           \/ \E v \in g[i].variants : Lower(v) = Lower(q)}

\* C12: find_preferred_fuzzy walks (client, domain), (client, null),
\* (null, domain), (null, null) and returns the preferred form of the first
\* scope holding an entry for lang with a non-empty preferred form whose
\* concept key is q or whose variants contain q, case-insensitively; it
\* answers not-found only when no scope holds one.
C12_FirstScopeWithEntry ==
    \A cid \in Clients, dom \in Domains, lang \in StoreLangs, q \in Queries :
        LET chain == ScopeChain(cid, dom)
            found == find_preferred_fuzzy(glossary, cid, dom, lang, q)
            holding == {i \in DOMAIN chain : ScopeEntries(glossary, chain[i], lang, q) # {}}
        IN IF holding = {}
           THEN found = None
           ELSE LET first == CHOOSE i \in holding : \A j \in holding : i <= j
                IN found \in {glossary[k].preferred :
                                 k \in ScopeEntries(glossary, chain[first], lang, q)}

\* the rows of a table under key (cid, dom, ck, lang), in rowid order
EntriesOf(g, cid, dom, ck, lang) ==
    LET Same(r) == KeyIs(r, cid, dom, ck, lang) IN SelectSeq(g, Same)

\* the rows of a table under every other key, in rowid order
OthersOf(g, cid, dom, ck, lang) ==
    LET Other(r) == ~KeyIs(r, cid, dom, ck, lang) IN SelectSeq(g, Other)

\* C13: upsert_preferred on key K replaces only K's preferred form: after
\* it K's preferred form is the written one, K's variant set is what it was
\* and every other entry is unchanged, for null-scoped keys as well.
C13_UpsertFrame ==
    [][\A cid \in ScopeClients, dom \in ScopeDomains, ck \in Concepts,
          lang \in StoreLangs, pref \in Prefs :
         glossary' = upsert_preferred(glossary, GlossaryItem(cid, dom, ck, lang, pref)) =>
            LET before == EntriesOf(glossary, cid, dom, ck, lang)
                after == EntriesOf(glossary', cid, dom, ck, lang)
            IN /\ \A i \in DOMAIN after : after[i].preferred = pref
               /\ \A i \in DOMAIN after :
                     after[i].variants \in
                        (IF before = <<>> THEN {{}}
                         ELSE {before[j].variants : j \in DOMAIN before})
               /\ OthersOf(glossary', cid, dom, ck, lang) = OthersOf(glossary, cid, dom, ck, lang)
      ]_vars

\* every variant held under a key, over all the rows of the key
KeyVariants(g, cid, dom, ck, lang) ==
    UNION {r.variants : r \in Range(EntriesOf(g, cid, dom, ck, lang))}

\* C14: over any sequence of add_variants and upsert_preferred calls a key's
\* variant set only grows: both leave the key with every variant it had,
\* add_variants adds the non-empty variants given, and add_variants changes
\* no preferred form (every reader's glossary block is what it was).
C14_VariantsOnlyGrow ==
    [][\A cid \in ScopeClients, dom \in ScopeDomains, ck \in Concepts, lang \in StoreLangs :
         /\ \A variants \in SUBSET (Variants \cup {""}) :
              glossary' = add_variants(glossary, ck, lang, variants, cid, dom) =>
                 /\ KeyVariants(glossary, cid, dom, ck, lang) \cup (variants \ {""})
                       \subseteq KeyVariants(glossary', cid, dom, ck, lang)
                 /\ \A rc \in Clients, rd \in Domains :
                       glossary_block(glossary', rc, rd, lang)
                          = glossary_block(glossary, rc, rd, lang)
         /\ \A pref \in Prefs :
              glossary' = upsert_preferred(glossary, GlossaryItem(cid, dom, ck, lang, pref)) =>
                 KeyVariants(glossary, cid, dom, ck, lang)
                    \subseteq KeyVariants(glossary', cid, dom, ck, lang)
      ]_vars

\* the tasks whose resolution returned, and the pairs they judged
Resolved == {t \in DOMAIN f_task : f_task[t].pc = "done"}
Judged(t) == Len(f_task[t].confs)

\* C15 as stated: a resolution issues the proposal+judge pair at most twice,
\* and a second time exactly when the first confidence is below the minimum.
C15_RetryWhenWeak ==
    \A t \in Resolved :
        /\ Judged(t) <= 2
        /\ Judged(t) >= 1 => (Judged(t) = 2 <=> f_task[t].confs[1] < TermQualityMin)

\* C15: a resolution issues the proposal+judge pair at most twice, whatever
\* the task's position: once initially and once more exactly when the first
\* confidence is below the minimum and enable_rag is set; every pair issued
\* is counted once, and a task is never back in the retry after its second pair.
C15_RetryWhenWeakAndRag ==
    /\ \A t \in DOMAIN f_task :
          /\ f_task[t].attempts <= 2
          /\ Judged(t) <= f_task[t].attempts
          /\ f_task[t].pc = "retry" => Judged(t) = 1
    /\ \A t \in Resolved :
          /\ Judged(t) = f_task[t].attempts
          /\ Judged(t) >= 1 =>
                (Judged(t) = 2 <=> (f_task[t].confs[1] < TermQualityMin /\ f_in.enable_rag))

\* a resolution that returned after its retry, still weak
C15_RetriedOnce ==
    \E t \in Resolved : f_task[t].confs = <<50, 50>> /\ f_in.enable_rag

\* the glossary rows of pair t at the scope of the call
PersistedAt(t) == RowsAt(f_in.client_id, f_in.domain, t[1], t[2])

\* C16: a resolution that found no preferred form and returned has persisted
\* its final proposal as the preferred form of the concept and language at
\* scope (client, domain), whatever the last confidence was.
C16_FinalProposalPersisted ==
    \A t \in Resolved :
        Judged(t) >= 1 =>
            /\ PersistedAt(t) # {}
            /\ \A i \in PersistedAt(t) : glossary[i].preferred = f_task[t].proposal

\* a proposal persisted although still below the minimum after the retry
C16_WeakProposalPersisted ==
    \E t \in Resolved :
        /\ Judged(t) = 2
        /\ f_task[t].confs[2] < TermQualityMin
        /\ \E i \in PersistedAt(t) : glossary[i].preferred = f_task[t].proposal

\* the stage of the graph a position of the run belongs to
StageOf(pc) ==
    CASE pc = "detect" -> 1
      [] pc = "domain" -> 2
      [] pc \in {"rag", "glossary", "fill"} -> 3
      [] pc = "translate" -> 4
      [] pc = "done" -> 5
      [] OTHER -> 0

\* the positions at which a stage begins
StageEntries == {"detect", "domain", "rag", "translate", "done"}

\* C17: a run of the graph pipeline goes through DetectAndPrepare,
\* DecideDomain, ResolveGlossaryAndContext and TranslateAndReview in that
\* order: every step stays in its stage, enters the next one, or ends the run
\* with an error; no stage is skipped and none is entered again.
C17_StagesInOrder ==
    [][p_in.engine = "graph" =>
          \/ p_pc' = p_pc
          \/ StageOf(p_pc') = StageOf(p_pc) /\ p_pc' \notin StageEntries
          \/ p_pc' = "error" /\ StageOf(p_pc) \in 2..4
          \/ StageOf(p_pc) \in 1..4 /\ StageOf(p_pc') = StageOf(p_pc) + 1
      ]_vars

\* a graph run that reached END with every target answered
C17_GraphRunCompleted ==
    /\ p_in.engine = "graph"
    /\ p_pc = "done"
    /\ DOMAIN p_results = TargetsR(p_in)

\* the segments 1..n in document order
DocumentOrder(n) == [i \in 1..n |-> i]

\* C18: within one target language the segments are processed one after the
\* other in document order: the k-th TM lookup is issued only when k-1
\* segments are merged, the merged segments are the first segments of the
\* document in order, each once, and a language that finished holds one
\* merged segment per source segment; so under every interleaving of the
\* languages.
C18_SegmentsInDocumentOrder ==
    \A L \in DOMAIN p_lang :
        LET me == p_lang[L]
            merged == Len(me.translated_segs)
        IN /\ me.translated_segs = DocumentOrder(merged)
           /\ merged <= me.calls["search"] /\ me.calls["search"] <= merged + 1
           /\ me.pc \in {"tm", "gen", "review"} => merged = me.seg - 1
           /\ me.pc = "tm" => me.calls["search"] = merged
           /\ me.pc \in {"qa", "ok"} => merged = p_in.nsegs

\* one language has merged its two segments while another has merged none
C18_LanguagesInterleaved ==
    \E L, K \in DOMAIN p_lang :
        /\ p_lang[L].translated_segs = <<1, 2>>
        /\ p_lang[K].translated_segs = <<>>
        /\ p_lang[K].pc = "review"

\* 1 when the review has answered, else 0
Answered(b) == IF b THEN 1 ELSE 0

\* C19: edit_merge is issued once per segment and only after both reviews of
\* the segment have answered: a language has issued as many merges as it has
\* segments behind it, and never more merges than adequacy reviews or than
\* fluency reviews; while it runs, each review of the current segment has
\* answered at most once.
C19_MergeAfterBothReviews ==
    \A L \in DOMAIN p_lang :
        LET me == p_lang[L]
            merges == me.calls["edit_merge"]
        IN /\ merges <= me.calls["adequacy_review"]
           /\ merges <= me.calls["fluency_review"]
           /\ me.pc \in {"tm", "gen", "review"} =>
                 /\ merges = me.seg - 1
                 /\ me.calls["adequacy_review"] = merges + Answered(me.ade)
                 /\ me.calls["fluency_review"] = merges + Answered(me.flu)
           /\ me.pc \in {"qa", "ok"} =>
                 /\ merges = p_in.nsegs
                 /\ me.calls["adequacy_review"] = merges
                 /\ me.calls["fluency_review"] = merges

\* the fluency review of the second segment answered before the adequacy
\* review, and the merge of that segment has not been issued
C19_FluencyAnsweredFirst ==
    \E L \in DOMAIN p_lang :
        /\ p_lang[L].pc = "review"
        /\ p_lang[L].seg = 2
        /\ p_lang[L].flu /\ ~p_lang[L].ade
        /\ p_lang[L].calls["edit_merge"] = 1

\* the callers that have written the tuple (cid, dom, "IRR", lang)
WritersOf(cid, dom, lang) ==
    {w \in DOMAIN w_task :
        /\ w_task[w].stamp > 0
        /\ w_task[w].call.client_id = cid
        /\ w_task[w].call.domain = dom
        /\ w_task[w].call.lang = lang}

\* C20: under every interleaving of concurrent glossary writers each tuple
\* holds what was written to it and nothing else: a tuple nobody wrote has no
\* entry, and a tuple that was written holds the preferred form of the last
\* write to it, in every row a reader can find for it.
C20_LastWriteWins ==
    \A cid \in ScopeClients, dom \in ScopeDomains, lang \in WriterLangs :
        LET ws == WritersOf(cid, dom, lang)
            rows == RowsAt(cid, dom, "IRR", lang)
        IN IF ws = {}
           THEN rows = {}
           ELSE LET last == CHOOSE w \in ws : \A v \in ws : w_task[v].stamp <= w_task[w].stamp
                IN /\ rows # {}
                   /\ \A i \in rows : glossary[i].preferred = w_task[last].call.preferred

\* the alias-table concepts a surface is a variant of: the surface and the
\* alias differ in letter case, folded accents, punctuation and whitespace
VariantOf(term, aliases) == {e \in aliases : Norm(term) = Norm(e[1])}

\* C21: to_canonical maps every surface variant of an alias-table concept to
\* the concept's key, whatever the case, the folded accents and the
\* punctuation or whitespace of the surface; "TIR", "IRR" and "TRI" all
\* give the key "IRR".
C21_VariantsShareKey ==
    c_pc = "returned" /\ c_args.fn = "to_canonical" =>
        /\ \A e \in VariantOf(c_args.term, AliasesOf(c_args.module)) : c_ret[1] = e[2]
        /\ c_args.term \in {<<"T", "I", "R">>, <<"I", "R", "R">>, <<"T", "R", "I">>} =>
              c_ret = <<IRR, TRUE>>

\* the characters of a text that are not whitespace, in order
Inked(s) == SelectSeq(s, LAMBDA c : c \notin Whitespace)

RECURSIVE Joined(_)
Joined(segs) == IF segs = <<>> THEN <<>> ELSE Head(segs) \o Joined(Tail(segs))

\* the positions of the text that hold a character other than whitespace
InkAt(text) == {i \in DOMAIN text : text[i] \notin Whitespace}

\* the position in the text of its n-th character other than whitespace
NthInk(text, n) == CHOOSE i \in InkAt(text) : Cardinality({j \in InkAt(text) : j <= i}) = n

\* the number of such characters in the first k segments
InkUpTo(segs, k) == Len(Inked(Joined(SubSeq(segs, 1, k))))

\* the segment holds one sentence: no terminator followed by whitespace
OneSentence(seg) ==
    \A i \in 1..(Len(seg) - 1) : ~(seg[i] \in Terminators /\ seg[i + 1] \in Whitespace)

\* between segment k and the next the text has a sentence boundary (a
\* terminator followed by whitespace) or a paragraph boundary (a blank line)
CutAtBoundary(text, segs, k) ==
    LET last == NthInk(text, InkUpTo(segs, k))
        next == NthInk(text, InkUpTo(segs, k) + 1)
    IN /\ next > last + 1
       /\ \/ text[last] \in Terminators
          \/ Cardinality({j \in (last + 1)..(next - 1) : text[j] = "nl"}) >= 2

\* C22: split_segments returns the text in document order, in segments that
\* are not empty and at most max_chars long unless the segment is one
\* sentence longer than the bound, and it cuts only at sentence and
\* paragraph boundaries.
C22_SegmentsBoundedAndWhole ==
    c_pc = "returned" /\ c_args.fn = "split_segments" =>
        /\ Inked(Joined(c_ret)) = Inked(c_args.text)
        /\ \A k \in DOMAIN c_ret :
              /\ c_ret[k] # <<>>
              /\ Len(c_ret[k]) <= c_args.max_chars \/ OneSentence(c_ret[k])
        /\ \A k \in 1..(Len(c_ret) - 1) : CutAtBoundary(c_args.text, c_ret, k)

\* a paragraph over the bound came back as two packed sentences and a third
C22_SentencesPacked ==
    /\ c_pc = "returned" /\ c_args.fn = "split_segments"
    /\ c_args.max_chars = 3
    /\ c_ret = <<<<".", " ", ".">>, <<".">>>>

\* the text with the decimal comma and the decimal point, and with them the
\* two thousands separators, exchanged: the same quantities in the format
\* of the other locale
OtherLocale(text) ==
    [i \in DOMAIN text |-> IF text[i] = "," THEN "." ELSE IF text[i] = "." THEN "," ELSE text[i]]

\* C23: numeric_consistency(S, T) is |N(S) /\ N(T)| / |N(S)|, and 1.0 when
\* N(S) is empty; it lies in [0, 1]; and it is 1.0 when T holds every
\* quantity of S in another format with the same magnitude, as when T is S
\* with decimal commas for decimal points.
C23_FormatIndependent ==
    c_pc = "returned" /\ c_args.fn = "numeric_consistency" =>
        LET ns == Normalized(c_args.src)
            nt == Normalized(c_args.tgt)
        IN /\ c_ret \in 0..100
           /\ ns = {} => c_ret = 100
           /\ ns # {} => c_ret = (100 * Cardinality(ns \cap nt)) \div Cardinality(ns)
           /\ c_args.tgt = OtherLocale(c_args.src) => c_ret = 100

\* C24: the score adomain_alignment_score returns is never below the rule
\* score domain_alignment_score gives the same text, for every confidence
\* and every weight in [0, 1] and when the audit call fails, and it is
\* never above 1.0.
C24_HybridNotBelowRule ==
    c_pc = "returned" /\ c_args.fn = "adomain_alignment_score" =>
        /\ c_ret.score >= c_ret.rule
        /\ c_ret.score <= 100
        /\ c_args.outcome = "raise" => c_ret.score = c_ret.rule

\* an audit less confident than the rule score left the rule score standing
C24_LowConfidenceIgnored ==
    /\ c_pc = "returned" /\ c_args.fn = "adomain_alignment_score"
    /\ c_args.outcome = "ok"
    /\ c_args.w = 60
    /\ c_args.confidence < c_ret.rule
    /\ c_ret.score = c_ret.rule

\* C25: no language-service call of a run takes text of the source document
\* that has not been through mask(): the calls that take the document, a
\* segment or a term of it take them from the masked text.
C25_OnlyMaskedTextSent ==
    \A c \in p_sent : c.site \in SourceSites => c.text = "masked_text"


\* C26: the scores of a target language are taken once, when every segment
\* of the document has been merged into its output: numeric_consistency gets
\* the text as it was before mask() and the scores get the joined output
\* after unmask(); the joined text with its placeholders is never scored.
C26_ScoredAfterUnmask ==
    \A L \in DOMAIN p_lang :
        LET me == p_lang[L]
        IN /\ me.scored <= 1
           /\ me.scored = 0 => me.qa_on = [src |-> None, tgt |-> None]
           /\ me.scored = 0 => me.pc \notin {"ok"}
           /\ me.scored > 0 =>
                /\ Len(me.translated_segs) = p_in.nsegs
                /\ me.calls["edit_merge"] = p_in.nsegs
                /\ me.qa_on = [src |-> "text", tgt |-> "full"]
                /\ \A c \in p_sent : c.site = "adomain_alignment_score" => c.text = "full"

\* a document of two segments was scored for one language while another
\* language was still in its segments
C26_ScoredTwoSegments ==
    \E L, K \in DOMAIN p_lang :
        /\ p_in.nsegs = 2
        /\ p_lang[L].scored = 1 /\ p_lang[L].pc = "ok"
        /\ p_lang[K].scored = 0 /\ p_lang[K].pc = "review"


\* C27: a segment answered from the translation memory is appended as the
\* stored target text: for every merged segment that had a TM hint, the text
\* in the language's output is the hint.
C27_TmHitReusedVerbatim ==
    \A L \in DOMAIN p_lang :
        \A k \in p_lang[L].hinted :
            k <= Len(p_lang[L].translated_segs) => k \in p_lang[L].verbatim


\* C28: during a fan-out never more than 6 fill() tasks are inside
\* _ensure_lang_pref, however many pairs the worklist has and in whatever
\* order they finish, and every pair that waits at the semaphore gets in:
\* from some moment on no pair of the worklist is left waiting.
C28_AtMostSixInFlight ==
    /\ [](Cardinality(InFlight) <= 6)
    /\ <>[](\A t \in DOMAIN f_task : f_task[t].pc # "queued")

\* six pairs are inside, one waits, and one that was inside has raised
C28_SemaphoreLocked ==
    /\ Cardinality(InFlight) = 6
    /\ Cardinality({t \in DOMAIN f_task : f_task[t].pc = "queued"}) = 1
    /\ \E t \in DOMAIN f_task : f_task[t].pc = "failed"


\* the calls that ask for embeddings
EmbeddingSites == {"retrieve", "search"}

\* C29: every call of a run to the language service is issued under the
\* process-wide limiter of its kind: the embedding calls under
\* _embed_limiter, the generation, parse, classification and judge calls
\* under _llm_limiter; no call is issued without a limiter.
C29_EveryCallLimited ==
    \A c \in p_sent :
        c.limiter = IF c.site \in EmbeddingSites THEN "_embed_limiter" ELSE "_llm_limiter"

\* a run has issued a classification, an embedding, a parse and a generation
\* call
C29_CallsOfEveryKind ==
    {"decide_domain", "search", "adequacy_review", "translate_text"}
        \subseteq {c.site : c \in p_sent}


\* what the fuzzy lookup of pair t finds in the store as it is
FoundFor(t) == find_preferred_fuzzy(glossary, f_in.client_id, f_in.domain, t[2], t[1])

\* C30: when the lookup of a resolution finds a preferred form, the
\* resolution returns that form in the same step: it has issued no proposal,
\* judge or enrichment call, and the glossary is left as it was; a
\* resolution that returned without a call never wrote a proposal.
C30_FoundMeansNoWork ==
    /\ [][\A t \in DOMAIN f_task :
            (f_task[t].pc = "lookup" /\ f_task'[t] # f_task[t] /\ Truthy(FoundFor(t))) =>
                /\ f_task'[t] = [f_task[t] EXCEPT !.pc = "done", !.pref = FoundFor(t)]
                /\ f_task'[t].attempts = 0 /\ f_task'[t].confs = <<>>
                /\ glossary' = glossary]_vars
    /\ [](\A t \in Resolved :
            f_task[t].attempts = 0 => f_task[t].proposal = None /\ Truthy(f_task[t].pref))

\* one resolution returned the stored form without a call while another had
\* to propose and persist
C30_ReturnedStoredForm ==
    \E t, u \in Resolved :
        /\ f_task[t].attempts = 0 /\ f_task[t].pref = "p3"
        /\ f_task[u].attempts > 0 /\ f_task[u].pref = f_task[u].proposal


\* C31: TMStore.upsert only appends: a step of upsert leaves every stored
\* record in place with its source text, target text and embedding, and adds
\* one record that holds the arguments of the call under a new id, also when
\* the source text is already stored for the client and language pair.
C31_UpsertOnlyAppends ==
    [][(c_args'.fn = "upsert" /\ <<tm, c_ret>>' # <<tm, c_ret>>) =>
          /\ Len(tm') = Len(tm) + 1
          /\ \A i \in DOMAIN tm : tm'[i] = tm[i]
          /\ LET new == tm'[Len(tm')]
             IN /\ <<new.client_id, new.src_lang, new.tgt_lang, new.src_text, new.tgt_text>>
                      = <<c_args'.client_id, c_args'.src_lang, c_args'.tgt_lang,
                          c_args'.src_text, c_args'.tgt_text>>
                /\ new.src_vec = Embed(new.src_text)
                /\ \A i \in DOMAIN tm : tm[i].id # new.id]_vars

\* a source text stored twice for one client and language pair, with two
\* target texts
C31_SameSourceTwice ==
    /\ c_pc = "returned" /\ c_args.fn = "upsert"
    /\ Len(tm) = 2
    /\ <<tm[1].client_id, tm[1].src_lang, tm[1].tgt_lang, tm[1].src_text>>
          = <<tm[2].client_id, tm[2].src_lang, tm[2].tgt_lang, tm[2].src_text>>
    /\ tm[1].tgt_text = "old" /\ tm[2].tgt_text = "new"


\* the stored records of the scope of the last search
InSearchScope ==
    {i \in DOMAIN tm : /\ tm[i].client_id = c_args.client_id
                       /\ tm[i].src_lang = c_args.src_lang
                       /\ tm[i].tgt_lang = c_args.tgt_lang}

\* C32: TMStore.search returns at most topk results, in non-increasing order
\* of similarity, each the target text and similarity of a record stored
\* under the client, source language and target language of the call, each
\* record at most once; a record of another client or language pair is not
\* among them, whatever its similarity.
C32_SearchScopedAndRanked ==
    (c_pc = "returned" /\ c_args.fn = "search") =>
        LET hits == c_ret.hits
        IN /\ Len(hits) <= c_args.topk
           /\ Len(hits) <= Cardinality(InSearchScope)
           /\ \A i, j \in DOMAIN hits : i < j => hits[i].sim >= hits[j].sim
           /\ \E from \in [DOMAIN hits -> InSearchScope] :
                 /\ \A i, j \in DOMAIN hits : from[i] = from[j] => i = j
                 /\ \A i \in DOMAIN hits :
                       /\ hits[i].tgt_text = tm[from[i]].tgt_text
                       /\ hits[i].sim = Sim(tm[from[i]].src_text, c_args.src_text)

\* the text searched is stored by another client; the search returns the
\* caller's own, less similar record
C32_OtherClientNotReturned ==
    /\ c_pc = "returned" /\ c_args.fn = "search"
    /\ c_args.client_id = "A" /\ c_args.src_text = "s1" /\ c_args.topk = 2
    /\ \E i \in DOMAIN tm : tm[i].client_id = "B" /\ tm[i].src_text = "s1"
    /\ Len(c_ret.hits) = 1 /\ c_ret.hits[1].sim = 93


SitesCalled == {c.site : c \in p_sent}

\* C34: with retrieval enabled, a run whose first retrieval answered with no
\* snippets has attempted a backfill (and then retrieves once more), and a
\* run whose retrieval answered with snippets has attempted none; so in
\* either engine.
C34_BackfillWhenEmpty ==
    /\ (/\ p_in.enable_rag
        /\ "retrieve" \in SitesCalled /\ "retrieve" \notin p_failed
        /\ ~p_rag)
          => "web_backfill_if_empty" \in SitesCalled
    /\ p_rag => "web_backfill_if_empty" \notin SitesCalled


\* C35: the domain a run resolves is an entry of DOMAINS as written,
\* whatever override the request gives and whatever the classifier answers;
\* normalize_domain answers with an entry of DOMAINS for every label, and
\* normalising its answer gives the same entry.
C35_DomainInClosedSet ==
    (c_args.fn = "decide_domain") =>
        /\ \A l \in {c_args.override, c_args.out} :
              /\ normalize_domain(l) \in DOMAINS
              /\ normalize_domain(LabelOf(normalize_domain(l))) = normalize_domain(l)
        /\ c_pc = "returned" => (c_ret.canon \in DOMAINS /\ c_ret.literal)


\* C36: whatever the interleaving of concurrent add_variants calls on a key,
\* the key keeps every variant it had and holds the variants of every call
\* that has returned.
C36_NoVariantLost ==
    /\ \A w \in DOMAIN w_task :
          w_task[w].pc = "done" =>
              w_task[w].call.variants
                  \subseteq KeyVariants(glossary, w_task[w].call.client_id,
                                        w_task[w].call.domain, "IRR", w_task[w].call.lang)
    /\ [][\A lang \in WriterLangs :
             KeyVariants(glossary, "A", "D", "IRR", lang)
                 \subseteq KeyVariants(glossary', "A", "D", "IRR", lang)]_vars


\* C37: when a run asked to save_tm has completed, the translation memory
\* answers every segment of every returned language that passed the QA
\* thresholds with a hit above the threshold, so that an identical second run
\* would find a hit for each of them, in the graph engine as in the async one.
C37_SavedRunLeavesHits ==
    (p_pc = "done" /\ p_in.save_tm) =>
        \A L \in DOMAIN p_results :
            Passes(p_results[L].qa) =>
                \A s \in 1..p_in.nsegs :
                    LET hits == search(tm, p_in.client_id, SegText(s), SrcLang, L)
                    IN hits # <<>> /\ hits[1].sim > TmThreshold


\* C38: a run with save_tm false leaves the translation memory as it was: no
\* step of either engine adds, changes or removes a row of tm_segments,
\* whatever the QA scores.
C38_NoSaveNoTmChange ==
    [][~p_in.save_tm => tm' = tm]_vars

\* a run completed with save_tm false over a seeded translation memory, with
\* a language that passed every QA threshold
C38_UnsavedRunEnded ==
    /\ p_pc = "done"
    /\ ~p_in.save_tm
    /\ tm # <<>>
    /\ \E L \in DOMAIN p_results : Passes(p_results[L].qa)


\* C39: the to_canonical of concept_canonicalizer and the copy inside
\* translate_graph return the same (concept_key, is_known) pair for every
\* surface: what one of them returned for a surface is what the other
\* returns for it, "tipo de cambio" included.
C39_CopiesAgree ==
    c_pc = "returned" /\ c_args.fn = "to_canonical" =>
        \A module \in CanonModules :
            c_ret = to_canonical(AliasesOf(module), c_args.term)

=============================================================================
